---- MODULE Spec2Model ----
(***************************************************************************)
(* The knowledge-base query / session / ingestion lifecycle of the         *)
(* just-in-time knowledge base: the query handler (QueryKnowledgeBase.py)  *)
(* with its session recovery and chat history ledger, and the ingestion    *)
(* handler (CheckKnowledgeBaseStatus.py).                                  *)
(***************************************************************************)
EXTENDS Integers, Sequences, FiniteSets, TLC

(***************************************************************************)
(* Bounds of the model.                                                    *)
(***************************************************************************)
MaxRequests == 2
MaxClock == 1
MaxFileId == 4
MaxPageSize == 2
MaxHistory == 2
MaxBatch == 3

(***************************************************************************)
(* Identities and Python values.                                           *)
(***************************************************************************)
Tenants == {"t1", "t2"}
Projects == {"p1", "p2"}
Sessions == {"s1", "s2", "s3"}
FileIds == 1..MaxFileId
\* Python None, or a key that is absent from a dict
NoValue == "<none>"
\* a JSON value that is not a string (a number)
NonString == "<int>"
\* a string of white space only
Blank == " "
\* the authenticated callers (user_id, tenant_id) of the Cognito claims
Callers ==
  { [user_id |-> "u1", tenant_id |-> "t1"],
    [user_id |-> "u2", tenant_id |-> "t1"],
    [user_id |-> "u1", tenant_id |-> "t2"] }

\* Python truthiness of a value of a request (None and "" are falsy)
Truthy(v) == v \notin {NoValue, ""}
\* a check of a request value that lets the empty string pass
is_missing_none_only(v) == v = NoValue
\* if not query / if not project_id
is_missing(v) == ~Truthy(v)
\* a configuration check that never fires
not_configured_never(v) == FALSE
\* if not knowledge_base_id / if not data_source_id / if not table_name
not_configured(v) == ~Truthy(v)
\* Python's  a or b
PyOr(a, b) == IF Truthy(a) THEN a ELSE b
\* isinstance(v, str)
IsStr(v) == v \notin {NoValue, NonString}
\* str.strip()
Strip(s) == IF s = Blank THEN "" ELSE s

(***************************************************************************)
(* The File Registry (PROJECT_FILES_TABLE): records keyed (tenantId, id).  *)
(***************************************************************************)
\* the projects that upload files, in the order their uploads draw file ids
RegistryOwners ==
  << [tenantId |-> "t1", projectId |-> "p1"],
     [tenantId |-> "t1", projectId |-> "p1"],
     [tenantId |-> "t2", projectId |-> "p1"],
     [tenantId |-> "t1", projectId |-> "p2"] >>

\* the project whose upload created the file id
FileOwner(id) == RegistryOwners[((id - 1) % Len(RegistryOwners)) + 1]

FileItem(id, owner) ==
  [ id |-> id, tenantId |-> owner.tenantId, projectId |-> owner.projectId,
    s3Key |-> <<owner.tenantId, owner.projectId, id>>, bucket |-> "user-files" ]

\* the registries uploads and deletions can leave: any of the files is present
Registries ==
  { { FileItem(id, FileOwner(id)) : id \in present } : present \in SUBSET FileIds }

\* a query of the index by project alone
query_items_by_project(table, tenant_id, project_id) ==
  { item \in table : item.projectId = project_id }

\* table.query(IndexName='tenantId-projectId-index', ...).get('Items')
query_items_by_tenant_project(table, tenant_id, project_id) ==
  { item \in table : item.tenantId = tenant_id /\ item.projectId = project_id }

get_file_ids(table, tenant_id, project_id) ==
  { item.id : item \in query_items_by_tenant_project(table, tenant_id, project_id) }

(***************************************************************************)
(* The retrieval/generation service: its failures.                         *)
(***************************************************************************)
Errors ==
  { [cls |-> "ClientError", code |-> c, phrases |-> ph] :
      c \in {"ValidationException", "ThrottlingException"},
      ph \in SUBSET {"is not valid", "Session with Id"} }
  \cup { [cls |-> "Exception", code |-> NoValue, phrases |-> {}] }

NoError == [cls |-> NoValue, code |-> NoValue, phrases |-> {}]

\* the test of perform_retrieve_and_generate for an invalid session id
IsInvalidSessionError(e) ==
  /\ e.cls = "ClientError"
  /\ e.code = "ValidationException"
  /\ "is not valid" \in e.phrases
  /\ "Session with Id" \in e.phrases

limit == 5

filter_expression(tenant_id, project_id, file_ids) ==
  [ tenantId |-> tenant_id, projectId |-> project_id, fileId |-> file_ids ]

NoFilter == [ tenantId |-> NoValue, projectId |-> NoValue, fileId |-> {} ]

\* retrieve_params; sessionId = NoValue is the key being absent
base_params(query, knowledge_base_id, filter) ==
  [ text |-> query, knowledgeBaseId |-> knowledge_base_id,
    numberOfResults |-> limit, filter |-> filter, sessionId |-> NoValue ]

NoParams == base_params(NoValue, NoValue, NoFilter)

\* an inclusion that only asks whether the value is truthy
SessionIncluded_truthy(session_id) == Truthy(session_id)

\* "Add sessionId parameter only if it's provided and not empty"
SessionIncluded(session_id) ==
  Truthy(session_id) /\ IsStr(session_id) /\ Truthy(Strip(session_id))

with_session(params, session_id) ==
  IF SessionIncluded(session_id) THEN [params EXCEPT !.sessionId = session_id]
  ELSE params

\* retrieve_params.pop('sessionId')
pop_session(params) == [params EXCEPT !.sessionId = NoValue]

NoResponse == [ sessionId |-> NoValue, text |-> NoValue, citations |-> <<>> ]

\* what the service may answer to a call: it continues the session it is given
\* and mints one when it is given none; it cites nothing, or the first file that
\* passes the filter
Responses(params) ==
  { [ sessionId |-> s, text |-> "answer", citations |-> c ] :
      s \in (IF params.sessionId # NoValue THEN {params.sessionId} ELSE Sessions),
      c \in {<<>>} \cup { <<f>> : f \in { g \in params.filter.fileId :
                                          \A h \in params.filter.fileId : g <= h } } }

\* the sources handle_query extracts from the citations
extract_sources(response) ==
  [ i \in 1..Len(response.citations) |->
      [ fileId |-> response.citations[i], content |-> "chunk" ] ]

(***************************************************************************)
(* The Chat History Ledger (CHAT_HISTORY_TABLE): items keyed (tenantId,id).*)
(***************************************************************************)
\* a put that adds an item without replacing the one stored under its key
put_item_appends(table, item) == table \cup {item}

\* Table.put_item: the item replaces the one stored under its key (tenantId, id)
put_item(table, item) ==
  { m \in table : ~(m.tenantId = item.tenantId /\ m.id = item.id) } \cup {item}

chat_item(id, session_id, user_id, tenant_id, project_id, message_type, content, timestamp, sources) ==
  [ id |-> id, sessionId |-> session_id, tenantId |-> tenant_id, userId |-> user_id,
    projectId |-> project_id, type |-> message_type, content |-> content,
    timestamp |-> timestamp, sources |-> sources ]

\* save_chat_message: the put may fail, and the failure is swallowed
save_chat_message(table, item, ok) ==
  IF ok THEN put_item(table, item) ELSE table

\* the items of a set in the order of their ids
RECURSIVE SortById(_)
SortById(items) ==
  IF items = {} THEN <<>>
  ELSE LET first == CHOOSE m \in items : \A n \in items : m.id <= n.id
       IN  <<first>> \o SortById(items \ {first})

\* one page of the index query: page_size items from position start
query_page(partition, start, page_size) ==
  LET last == IF start + page_size - 1 < Len(partition) THEN start + page_size - 1
              ELSE Len(partition)
  IN  [ Items |-> SubSeq(partition, start, last),
        LastEvaluatedKey |-> IF last < Len(partition) THEN last ELSE 0 ]

\* a retrieval that returns after the first page
drain_pages_first_only(partition, response, page_size) == response.Items

\* the loop of get_chat_history_by_tenant_user that drains the pages
RECURSIVE drain_pages(_, _, _)
drain_pages(partition, response, page_size) ==
  IF response.LastEvaluatedKey = 0 THEN response.Items
  ELSE LET next == query_page(partition, response.LastEvaluatedKey + 1, page_size)
       IN  response.Items \o drain_pages(partition, next, page_size)

\* get_chat_history_by_tenant_user: every page, or [] when a query fails
get_chat_history_by_tenant_user(table, tenant_id, user_id, page_size, ok) ==
  LET partition ==
        SortById({ m \in table : m.tenantId = tenant_id /\ m.userId = user_id })
  IN  IF ok THEN drain_pages(partition, query_page(partition, 1, page_size), page_size)
      ELSE <<>>

\* a selection that takes every message of the caller, whatever its session
messages_to_update_all(messages, old_session_id) == messages

\* messages_to_update of update_chat_history_session_id
messages_to_update(messages, old_session_id) ==
  SelectSeq(messages, LAMBDA msg : msg.sessionId = old_session_id)

\* a copy that is written back with the session id it had
updated_item_unchanged(msg, new_session_id) == msg

\* updated_item of update_chat_history_session_id
updated_item(msg, new_session_id) == [msg EXCEPT !.sessionId = new_session_id]

\* the turns earlier successful queries may have left: who asked, in which session
EarlierTurns ==
  << [user_id |-> "u1", tenant_id |-> "t1", session_id |-> "s1"],
     [user_id |-> "u1", tenant_id |-> "t1", session_id |-> "s2"],
     [user_id |-> "u2", tenant_id |-> "t1", session_id |-> "s1"],
     [user_id |-> "u1", tenant_id |-> "t2", session_id |-> "s1"] >>

\* the user entry and the ai entry the k-th earlier query saved
turn_entries(k, turn) ==
  { chat_item(2 * k - 1, turn.session_id, turn.user_id, turn.tenant_id, "p1",
              "user", "q1", 0, <<>>),
    chat_item(2 * k, turn.session_id, turn.user_id, turn.tenant_id, "p1",
              "ai", "answer", 1, <<>>) }

\* the ledgers at most MaxHistory earlier queries left behind
Ledgers ==
  { UNION { turn_entries(Cardinality({ j \in chosen : j <= i }), EarlierTurns[i]) :
              i \in chosen } :
      chosen \in { c \in SUBSET (1..Len(EarlierTurns)) : Cardinality(c) <= MaxHistory } }

(***************************************************************************)
(* State.                                                                  *)
(***************************************************************************)
VARIABLES
  environ,    \* os.environ: DATA_SOURCE_ID and KNOWLEDGE_BASE_FILES_TABLE
  reap,       \* the invocation of the Expiry Reaper
  del,        \* the last deletion request and its response
  bucket,     \* the keys of the objects of USER_FILES_BUCKET
  projects,   \* the projects table (PROJECTS_TABLE_NAME)
  registry,   \* the File Registry
  ledger,     \* the Chat History Ledger
  nextId,     \* the next uuid4
  clock,      \* time.time()
  kbId,       \* os.environ['KNOWLEDGE_BASE_ID']
  tenantsEnv, \* os.environ['TENANTS']
  rq,         \* the invocations of the query handler
  served,     \* requests answered so far
  kbTable,    \* the knowledge-base-facing table (KNOWLEDGE_BASE_FILES_TABLE)
  index,      \* the documents of the knowledge base index
  ing,        \* the invocation of the ingestion handler
  hist,       \* the request to a history endpoint and its response
  stream,     \* the removal notifications of the table not yet delivered
  up          \* the invocations of the upload handler

ingestVars == <<kbTable, index, ing>>
lifecycleVars == <<environ, reap, del, bucket, projects, hist, stream, up>>
vars == <<environ, reap, del, bucket, projects, registry, ledger, nextId, clock, kbId, tenantsEnv, rq, served, kbTable, index, ing, hist, stream, up>>

\* the body of the 200 response of handle_query
NoBody ==
  [ results |-> NoResponse,
    filters |-> [fileIds |-> {}, projectId |-> NoValue, tenantId |-> NoValue, userId |-> NoValue] ]

\* the invocations the platform may run side by side
Procs == {1, 2}

IdleRq ==
  [ pc |-> "idle", user_id |-> NoValue, tenant_id |-> NoValue, query |-> NoValue,
    project_id |-> NoValue, session_id |-> NoValue, file_ids |-> {},
    retrieve_params |-> NoParams, response |-> NoResponse, session_changed |-> FALSE,
    todo |-> <<>>, timestamp |-> 0, statusCode |-> 0, error |-> NoValue,
    detail |-> NoError, body |-> NoBody,
    \* history of the invocation: whether the File Registry answered, the
    \* service calls made, the ledger at the start, the steps of the re-key and
    \* the appends that failed
    registry_ok |-> TRUE, calls |-> <<>>, before |-> {}, rekey_failed |-> FALSE,
    save_failed |-> {},
    \* the File Registry as it was when the invocation read it
    registry_seen |-> {} ]

\* create_response(event, status_code, {'error': ...}) and the return
Respond(r, status_code, error, detail) ==
  [r EXCEPT !.pc = "done", !.statusCode = status_code, !.error = error, !.detail = detail]

\* a handle_query that goes on without files
no_files_never(file_ids) == FALSE

\* if not file_ids
no_files(file_ids) == file_ids = {}

\* handle_query up to the service call: the checks of the request, the file ids
\* of the project, the filter and the parameters of the call
\* project_id, session_id and file_ids are assigned as the code reaches them
handle_query_begin(r0, project_id, session_id, table, knowledge_base_id, registry_ok) ==
  LET r1 == [r0 EXCEPT !.project_id = project_id, !.session_id = session_id]
      r2 == [r1 EXCEPT !.registry_ok = registry_ok, !.registry_seen = table]
      file_ids == get_file_ids(table, r0.tenant_id, project_id)
      filter == filter_expression(r0.tenant_id, project_id, file_ids)
  IN  IF is_missing(r0.query) THEN Respond(r0, 400, "Query text is required", NoError)
      ELSE IF not_configured(knowledge_base_id)
        THEN Respond(r1, 500, "Knowledge base ID not configured", NoError)
      ELSE IF is_missing(project_id)
        THEN Respond(r1, 400, "Project ID is required", NoError)
      \* the query of the File Registry raised: handler's except
      ELSE IF ~registry_ok THEN Respond(r2, 500, "Internal server error", NoError)
      ELSE IF no_files(file_ids)
        THEN Respond(r2, 404, "No files found for this project", NoError)
      ELSE [r2 EXCEPT !.pc = "attempt", !.file_ids = file_ids,
                      !.retrieve_params =
                         with_session(base_params(r0.query, knowledge_base_id, filter),
                                      session_id)]

\* a retry on any failure of a call that carried a sessionId
should_retry_any_error(e, params) == params.sessionId # NoValue

\* the except branch of perform_retrieve_and_generate that retries
should_retry(e, params) == IsInvalidSessionError(e) /\ params.sessionId # NoValue

\* a retry whose parameters are built anew without the filter
retry_params_unfiltered(params) == [pop_session(params) EXCEPT !.filter = NoFilter]

\* a retry that leaves sessionId in the parameters
retry_params_keeps_session(params) == params

\* the parameters of the retry
retry_params(params) == pop_session(params)

\* if session_changed and session_id
needs_rekey(r) == r.session_changed /\ Truthy(r.session_id)

\* the except branch of handle_query: the body is
\* {'error': f"Error querying knowledge base: {str(e)}"}
query_failed(r, e) == Respond(r, 500, "Error querying knowledge base", e)

\* an update_chat_history_session_id whose failure escapes to the except branch
\* of handle_query
rekey_ended_raises(r, failed) ==
  IF failed THEN Respond([r EXCEPT !.todo = <<>>, !.rekey_failed = TRUE], 500,
                         "Error querying knowledge base", NoError)
  ELSE [r EXCEPT !.todo = <<>>, !.rekey_failed = FALSE, !.pc = "save_user"]

\* update_chat_history_session_id returns True or False from its own try/except,
\* and handle_query goes on to the appends without looking at the result
rekey_ended(r, failed) ==
  [r EXCEPT !.todo = <<>>, !.rekey_failed = failed, !.pc = "save_user"]

\* the first call of perform_retrieve_and_generate answered by response
attempt_ok(r, response) ==
  [r EXCEPT !.pc = "save_user", !.response = response, !.session_changed = FALSE,
            !.calls = Append(@, [params |-> r.retrieve_params, error |-> NoError])]

\* the first call of perform_retrieve_and_generate failing with e
attempt_failed(r, e) ==
  LET called == [r EXCEPT !.calls = Append(@, [params |-> r.retrieve_params, error |-> e])]
  IN  IF should_retry(e, r.retrieve_params)
        THEN [called EXCEPT !.pc = "recover",
                            !.retrieve_params = retry_params(r.retrieve_params)]
      ELSE query_failed(called, e)

\* the retry answered by response, back in handle_query
recover_ok(r, response) ==
  LET got == [r EXCEPT !.response = response, !.session_changed = TRUE,
                       !.calls = Append(@, [params |-> r.retrieve_params, error |-> NoError])]
  IN  [got EXCEPT !.pc = IF needs_rekey(got) THEN "rekey_get" ELSE "save_user"]

\* the retry failing with e
recover_failed(r, e) ==
  query_failed([r EXCEPT !.calls = Append(@, [params |-> r.retrieve_params, error |-> e])], e)

\* an ai message stamped like the user message
ai_timestamp_same(timestamp) == timestamp

\* the timestamp of the ai message
ai_timestamp(timestamp) == timestamp + 1

\* a save_chat_message that lets the failure of the put escape to the handler
after_save_raises(next, ok, message_type) ==
  IF ok THEN next ELSE Respond(next, 500, "Internal server error", NoError)

\* save_chat_message returns False when the put raised, and handle_query goes
\* on to next either way
after_save(next, ok, message_type) ==
  IF ok THEN next ELSE [next EXCEPT !.save_failed = @ \cup {message_type}]

\* entries filed under the session id the request carried
entry_session_of_request(r) == r.session_id

\* session_id = response['sessionId'], under which both entries are saved
entry_session(r) == r.response.sessionId

\* a handler that reports a failure after it has saved its entries
respond_ok_reports_failure(r) == Respond(r, 500, "Error querying knowledge base", NoError)

\* return create_response(event, 200, {'query', 'results', 'filters'})
respond_ok(r) ==
  [ Respond(r, 200, NoValue, NoError) EXCEPT
      !.body = [ results |-> r.response,
                 filters |-> [ fileIds |-> r.file_ids, projectId |-> r.project_id,
                               tenantId |-> r.tenant_id, userId |-> r.user_id ] ] ]

\* the service does not mint again the session id it has just rejected
RetryResponses(params, rejected) ==
  { response \in Responses(params) : response.sessionId # rejected }

(***************************************************************************)
(* The ingestion handler (CheckKnowledgeBaseStatus.py).                    *)
(***************************************************************************)
\* os.environ['TENANTS']: the tenants of the deployment
TenantsConfigured ==
  [ kind |-> "json",
    Tenants |-> { [Id |-> "t1", MaxFiles |-> 2, FilesTTLHours |-> 1],
                  [Id |-> "t2", MaxFiles |-> 2, FilesTTLHours |-> 2] } ]

\* the variable unset, not JSON, JSON without "Tenants", without the second tenant
TenantsEnvs ==
  { TenantsConfigured,
    [ kind |-> "unset", Tenants |-> {} ],
    [ kind |-> "malformed", Tenants |-> {} ],
    [ kind |-> "no_tenants_key", Tenants |-> {} ],
    [ kind |-> "json", Tenants |-> { [Id |-> "t1", MaxFiles |-> 2, FilesTTLHours |-> 1] } ] }

NoTenant == [Id |-> NoValue, MaxFiles |-> 0, FilesTTLHours |-> 0]

\* find_tenant: the entry of tenant_id, or None
find_tenant(tenant_id, tenants) ==
  IF \E tenant \in tenants : tenant.Id = tenant_id
    THEN CHOOSE tenant \in tenants : tenant.Id = tenant_id
  ELSE NoTenant

\* a check that does not look for the entry of the tenant
tenant_config_ok_json_only(env, tenant_id) == env.kind = "json"

\* whether the first try block of ingest_files ends without raising
tenant_config_ok(env, tenant_id) ==
  env.kind = "json" /\ find_tenant(tenant_id, env.Tenants) # NoTenant

SecondsPerHour == 3600

\* ttl = int(time.time()) + (int(tenant['FilesTTLHours']) * 3600)
compute_ttl(now, tenant) == now + tenant.FilesTTLHours * SecondsPerHour

\* the Item ingest_files puts in the knowledge base files table
file_record(file, user_id, tenant_id, project_id, created_at, ttl) ==
  [ id |-> file.id, userId |-> user_id, tenantId |-> tenant_id, projectId |-> project_id,
    documentStatus |-> "ready", createdAt |-> created_at, ttl |-> ttl ]

\* the document ingest_files submits: its identifier, location and inline attributes
document(file, user_id, tenant_id, project_id) ==
  [ id |-> file.id, uri |-> <<"s3", file.bucket, file.s3Key>>,
    attributes |-> [ userId |-> user_id, tenantId |-> tenant_id,
                     projectId |-> project_id, fileId |-> file.id ] ]

\* the index keeps one document per identifier
index_put(docs, doc) == { d \in docs : d.id # doc.id } \cup {doc}

IdleIng ==
  [ pc |-> "idle", user_id |-> NoValue, tenant_id |-> NoValue, project_id |-> NoValue,
    files |-> <<>>, i |-> 0, ttl |-> 0, files_ingested |-> 0, statusCode |-> 0,
    error |-> NoValue,
    \* history of the invocation: the tables at its start, the records it put,
    \* the documents it submitted
    before |-> {}, index_before |-> {}, puts |-> <<>>, submitted |-> <<>> ]

IngRespond(g, status_code, error) ==
  [g EXCEPT !.pc = "done", !.statusCode = status_code, !.error = error]

\* for file in files: the body for the next file, or the end of ingest_files and
\* the 200 of the handler
loop_next(g) ==
  IF g.i > Len(g.files) THEN IngRespond(g, 200, NoValue) ELSE [g EXCEPT !.pc = "put"]

\* a check for None only
no_selected_files_none_only(files_ok, files) == ~files_ok

\* if selected_files is None or len(selected_files) == 0
no_selected_files(files_ok, files) == ~files_ok \/ Len(files) = 0

\* handler up to the loop of ingest_files: the checks of the request, the files
\* of the project, the tenant's retention
ingest_begin(g0, table, knowledge_base_id, env, files_ok, now) ==
  LET files == SortById(query_items_by_tenant_project(table, g0.tenant_id, g0.project_id))
  IN  IF not_configured(knowledge_base_id)
        THEN IngRespond(g0, 500, "Knowledge base ID not configured")
      ELSE IF is_missing(g0.project_id)
        THEN IngRespond(g0, 400, "Report project ID is required")
      \* get_project_files returns None when its query raises
      ELSE IF no_selected_files(files_ok, files)
        THEN IngRespond(g0, 400, "Project requires files")
      ELSE IF ~tenant_config_ok(env, g0.tenant_id)
        THEN IngRespond(g0, 500, "Internal server error")
      ELSE loop_next([g0 EXCEPT !.files = files, !.i = 1,
                        !.ttl = compute_ttl(now, find_tenant(g0.tenant_id, env.Tenants))])

\* a failed submission that is logged and skipped
submit_failed_swallowed(g) == loop_next([g EXCEPT !.i = @ + 1])

\* ingest_knowledge_base_documents raises: ingest_files re-raises and the handler
\* answers with the generic 500
submit_failed(g) == IngRespond(g, 500, "Internal server error")

\* the body of the response of the handler
ingest_body(g) ==
  IF g.statusCode = 200
    THEN [itemStatus |-> "ready", message |-> "All files are in the knowledge base"]
  ELSE [error |-> g.error]

\* a loop that returns after its first file
after_submit_returns(g) ==
  IngRespond([g EXCEPT !.files_ingested = @ + 1, !.i = @ + 1], 200, NoValue)

\* files_ingested += 1, and the loop goes on
after_submit(g) == loop_next([g EXCEPT !.files_ingested = @ + 1, !.i = @ + 1])

(***************************************************************************)
(* The Expiry Reaper (CleanupKnowledgeBase.py).                            *)
(***************************************************************************)
EnvironConfigured == [DATA_SOURCE_ID |-> "ds1", KNOWLEDGE_BASE_FILES_TABLE |-> "kb-files"]

Environs ==
  { [DATA_SOURCE_ID |-> d, KNOWLEDGE_BASE_FILES_TABLE |-> t] :
      d \in {"ds1", NoValue}, t \in {"kb-files", NoValue} }

\* the userIdentity of a removal by the time-to-live service; a record of any
\* other change carries no userIdentity; a removal by another service principal
TtlService == [type |-> "Service", principalId |-> "dynamodb.amazonaws.com"]
NoIdentity == [type |-> NoValue, principalId |-> NoValue]
OtherService == [type |-> "Service", principalId |-> "other.amazonaws.com"]

\* a record of the stream of the knowledge base files table; the stream always
\* delivers the key (tenantId, id) of the item that changed
stream_record(event_name, user_identity, id) ==
  [ eventName |-> event_name, userIdentity |-> user_identity,
    Keys |-> [id |-> id, tenantId |-> FileOwner(id).tenantId] ]

\* the records a batch is made of: the expiry of any file, and for the first
\* file a removal by a caller, a removal by another service and an insertion
StreamRecords ==
  { stream_record("REMOVE", TtlService, id) : id \in FileIds }
  \cup { stream_record("REMOVE", NoIdentity, 1),
         stream_record("REMOVE", OtherService, 1),
         stream_record("INSERT", NoIdentity, 1) }

\* event['Records']
Batches == UNION { [1..n -> StreamRecords] : n \in 0..MaxBatch }

\* a test that takes every removal for an expiry
is_ttl_expiration_any_remove(record) == record.eventName = "REMOVE"

\* a test that does not look at the principal
is_ttl_expiration_any_service(record) ==
  record.eventName = "REMOVE" /\ record.userIdentity.type = "Service"

\* the two tests of the loop: a REMOVE by the time-to-live service
is_ttl_expiration(record) ==
  /\ record.eventName = "REMOVE"
  /\ record.userIdentity.type = "Service"
  /\ record.userIdentity.principalId = "dynamodb.amazonaws.com"

\* an id a key does not carry (falsy)
NoFileId == 0

\* file_id and tenant_id are both there
has_keys(record) == record.Keys.id # NoFileId /\ Truthy(record.Keys.tenantId)

\* delete_knowledge_base_documents for a custom document identifier
index_delete(docs, id) == { d \in docs : d.id # id }

\* a count a message does not carry
NoCount == -1

NoMessage == [text |-> NoValue, processed |-> NoCount, errors |-> NoCount]

IdleReap ==
  [ pc |-> "idle", records |-> <<>>, i |-> 0, processed_count |-> 0, error_count |-> 0,
    statusCode |-> 0, message |-> NoMessage, error |-> NoValue,
    \* history of the invocation: the deletion requests it issued, the index at
    \* its start
    requests |-> <<>>, index_before |-> {} ]

ReapFail(r, error) == [r EXCEPT !.pc = "done", !.statusCode = 500, !.error = error]

ReapSucceed(r, message) == [r EXCEPT !.pc = "done", !.statusCode = 200, !.message = message]

\* f"Processed {processed_count} TTL expiration events with {error_count} errors"
counts_message(r) ==
  [text |-> "Processed TTL expiration events with errors",
   processed |-> r.processed_count, errors |-> r.error_count]

\* for record in event.get('Records', []): the next record, or the final return
reap_loop_next(r) ==
  IF r.i > Len(r.records) THEN ReapSucceed(r, counts_message(r)) ELSE [r EXCEPT !.pc = "record"]

\* lambda_handler up to the loop: the configuration and the empty batch
reaper_begin(r0, knowledge_base_id, env) ==
  IF not_configured(knowledge_base_id) THEN ReapFail(r0, "Knowledge base ID not configured")
  ELSE IF not_configured(env.DATA_SOURCE_ID) THEN ReapFail(r0, "Data source ID not configured")
  ELSE IF not_configured(env.KNOWLEDGE_BASE_FILES_TABLE)
    THEN ReapFail(r0, "Knowledge base files table name not configured")
  ELSE IF Len(r0.records) = 0
    THEN ReapSucceed(r0, [NoMessage EXCEPT !.text = "No records to process"])
  ELSE reap_loop_next([r0 EXCEPT !.i = 1])

\* a record the loop passes over
record_skipped(r) == reap_loop_next([r EXCEPT !.i = @ + 1])

\* the request is logged whether it succeeds or not
request_issued(r, ok) ==
  [r EXCEPT !.requests = Append(@, [position |-> r.i, id |-> r.records[r.i].Keys.id,
                                     ok |-> ok])]

\* processed_count += 1
delete_succeeded(r) ==
  reap_loop_next([r EXCEPT !.processed_count = @ + 1, !.i = @ + 1])

\* a failed deletion that ends the handler
delete_failed_aborts(r) == ReapFail(r, "AWS Client Error")

\* a failed deletion that is not counted
delete_failed_uncounted(r) == reap_loop_next([r EXCEPT !.i = @ + 1])

\* the two except clauses of the deletion: error_count += 1
delete_failed(r) ==
  reap_loop_next([r EXCEPT !.error_count = @ + 1, !.i = @ + 1])

(***************************************************************************)
(* Explicit deletion (ProjectFiles.py, Projects.py).                       *)
(***************************************************************************)
\* the objects and the projects the files of a registry belong to
objects_of(table) == { x.s3Key : x \in table }
projects_of(table) == { [tenantId |-> x.tenantId, id |-> x.projectId] : x \in table }

\* the records and documents an ingestion by the first user left for every file
\* of a registry
ingested_records(table, env) ==
  { file_record(x, "u1", x.tenantId, x.projectId, 0,
                compute_ttl(0, find_tenant(x.tenantId, env.Tenants))) : x \in table }
ingested_documents(table) == { document(x, "u1", x.tenantId, x.projectId) : x \in table }

IdleDel ==
  [ op |-> NoValue, tenant_id |-> NoValue, statusCode |-> 0, error |-> NoValue,
    \* history of the request: the file ids it was to delete
    file_ids |-> {} ]

DelRespond(d, status_code, error) == [d EXCEPT !.statusCode = status_code, !.error = error]

\* Table.delete_item(Key={'tenantId': ..., 'id': ...})
delete_item(table, tenant_id, id) ==
  { x \in table : ~(x.tenantId = tenant_id /\ x.id = id) }

\* the batch writer of delete_project: a delete_item for every item
batch_delete(table, items) ==
  { x \in table : ~\E item \in items : x.tenantId = item.tenantId /\ x.id = item.id }

\* delete_s3_folder: every object under tenant_id/project_id/
delete_s3_folder(objects, tenant_id, project_id) ==
  { key \in objects : ~(key[1] = tenant_id /\ key[2] = project_id) }

\* the stores a deletion works on
Stores(files, objects, docs, project_items) ==
  [registry |-> files, bucket |-> objects, index |-> docs, projects |-> project_items]

\* delete_project_file: what it leaves in the stores and what it answers; a
\* failure of the index deletion is logged and the deletion goes on
delete_project_file(st, d0, id, knowledge_base_id, env, get_ok, s3_ok, kb_ok, table_ok) ==
  LET found == { x \in st.registry : x.tenantId = d0.tenant_id /\ x.id = id }
      d1 == [d0 EXCEPT !.file_ids = { x.id : x \in found }]
      objects == st.bucket \ { x.s3Key : x \in found }
      docs == IF Truthy(knowledge_base_id) /\ Truthy(env.DATA_SOURCE_ID) /\ kb_ok
                THEN index_delete(st.index, id) ELSE st.index
  IN  IF id = NoFileId
        THEN [st |-> st, del |-> DelRespond(d0, 400, "Project file ID is required")]
      ELSE IF ~get_ok
        THEN [st |-> st, del |-> DelRespond(d0, 500, "Failed to delete project file")]
      ELSE IF found = {}
        THEN [st |-> st, del |-> DelRespond(d0, 404, "Project file not found")]
      ELSE IF ~s3_ok
        THEN [st |-> st, del |-> DelRespond(d1, 500, "Failed to delete file from S3")]
      ELSE IF ~table_ok
        THEN [st |-> [st EXCEPT !.bucket = objects, !.index = docs],
              del |-> DelRespond(d1, 500, "Failed to delete project file")]
      ELSE [st |-> [st EXCEPT !.bucket = objects, !.index = docs,
                              !.registry = delete_item(@, d0.tenant_id, id)],
            del |-> DelRespond(d1, 204, NoValue)]

\* the documents delete_project removes: a call is made for every item when the
\* knowledge base id is set, and fails without the data source id
delete_documents(docs, ids, knowledge_base_id, env, kb_failed) ==
  IF Truthy(knowledge_base_id) /\ Truthy(env.DATA_SOURCE_ID)
    THEN { doc \in docs : doc.id \notin (ids \ kb_failed) }
  ELSE docs

\* delete_project: the documents, the items of the File Registry (one batch), the
\* folder of the bucket, the project
delete_project(st, d0, project_id, knowledge_base_id, env, query_ok, kb_failed, batch_ok, s3_ok, table_ok) ==
  LET items == query_items_by_tenant_project(st.registry, d0.tenant_id, project_id)
      d1 == [d0 EXCEPT !.file_ids = { x.id : x \in items }]
      docs == delete_documents(st.index, d1.file_ids, knowledge_base_id, env, kb_failed)
      files == batch_delete(st.registry, items)
      objects == delete_s3_folder(st.bucket, d0.tenant_id, project_id)
  IN  IF project_id = NoValue
        THEN [st |-> st, del |-> DelRespond(d0, 400, "Project ID is required")]
      ELSE IF ~query_ok
        THEN [st |-> st, del |-> DelRespond(d0, 500, "Failed to delete project")]
      ELSE IF ~batch_ok
        THEN [st |-> [st EXCEPT !.index = docs],
              del |-> DelRespond(d1, 500, "Failed to delete project")]
      ELSE IF ~s3_ok
        THEN [st |-> [st EXCEPT !.index = docs, !.registry = files],
              del |-> DelRespond(d1, 500, "Failed to delete project")]
      ELSE IF ~table_ok
        THEN [st |-> [st EXCEPT !.index = docs, !.registry = files, !.bucket = objects],
              del |-> DelRespond(d1, 500, "Failed to delete project")]
      ELSE [st |-> Stores(files, objects, docs,
                          delete_item(st.projects, d0.tenant_id, project_id)),
            del |-> DelRespond(d1, 204, NoValue)]

\* int(time.time()): the clock never runs backwards; clock is its last reading
(***************************************************************************)
(* The history endpoints of QueryKnowledgeBase.py.                         *)
(***************************************************************************)
\* the request to a history endpoint, before it arrives
IdleHist ==
  [ op |-> NoValue, user_id |-> NoValue, tenant_id |-> NoValue, project_id |-> NoValue,
    statusCode |-> 0, error |-> NoValue, message |-> NoValue,
    messages |-> <<>>, count |-> NoCount,
    \* history of the request: the ledger it found, the size of the pages the
    \* store delivered, whether the retrieval succeeded, and what the bulk
    \* delete reported ("none" when it was not called)
    before |-> {}, page_size |-> 0, get_ok |-> TRUE, bulk |-> "none" ]

HistRespond(h, status_code, error) == [h EXCEPT !.statusCode = status_code, !.error = error]

\* handle_get_session
handle_get_session(h0, table, page_size, ok) ==
  IF is_missing(h0.project_id) THEN HistRespond(h0, 400, "Project ID is required")
  ELSE LET messages == get_chat_history_by_tenant_user(table, h0.tenant_id, h0.user_id,
                                                       page_size, ok)
       IN  [h0 EXCEPT !.statusCode = 200, !.messages = messages, !.count = Len(messages),
                      !.page_size = page_size, !.get_ok = ok]

\* the items a sequence holds
Range(seq) == { seq[i] : i \in 1..Len(seq) }

\* batch_delete_items on a table: a delete_item for every item; when the batch
\* writer raises, the deletes already flushed (the first flushed items) stay done
batch_delete_items(table, items, ok, flushed) ==
  IF ok THEN batch_delete(table, Range(items))
  ELSE batch_delete(table, Range(SubSeq(items, 1, flushed)))

\* a response that confirms the deletion whatever delete_chat_session returned
delete_session_response_always(h, success) ==
  [h EXCEPT !.statusCode = 200, !.message = "Project chat history deleted successfully"]

\* handle_delete_session once delete_chat_session has returned success
delete_session_response(h, success) ==
  IF ~success
    THEN HistRespond(h, 404, "Project chat history not found or not authorized")
  ELSE [h EXCEPT !.statusCode = 200, !.message = "Project chat history deleted successfully"]

\* the messages delete_chat_session hands to batch_delete_items
delete_chat_session_messages(table, tenant_id, project_id, user_id, page_size, ok) ==
  get_chat_history_by_tenant_user(table, tenant_id, user_id, page_size, ok)

\* handle_delete_session: delete_chat_session returns what batch_delete_items returned
handle_delete_session(h0, page_size, get_ok, batch_ok) ==
  IF is_missing(h0.project_id) THEN HistRespond(h0, 400, "Project ID is required")
  ELSE delete_session_response(
         [h0 EXCEPT !.page_size = page_size, !.get_ok = get_ok,
                    !.bulk = IF batch_ok THEN "ok" ELSE "failed"],
         batch_ok)

\* the turns earlier queries may have left, with the project they were asked in
HistoryTurns ==
  << [user_id |-> "u1", tenant_id |-> "t1", session_id |-> "s1", project_id |-> "p1"],
     [user_id |-> "u1", tenant_id |-> "t1", session_id |-> "s2", project_id |-> "p2"],
     [user_id |-> "u1", tenant_id |-> "t1", session_id |-> "s1", project_id |-> "p2"],
     [user_id |-> "u2", tenant_id |-> "t1", session_id |-> "s1", project_id |-> "p1"],
     [user_id |-> "u1", tenant_id |-> "t2", session_id |-> "s1", project_id |-> "p1"] >>

\* the user entry and the ai entry the k-th earlier query saved in its project
project_turn_entries(k, turn) ==
  { chat_item(2 * k - 1, turn.session_id, turn.user_id, turn.tenant_id, turn.project_id,
              "user", "q1", 0, <<>>),
    chat_item(2 * k, turn.session_id, turn.user_id, turn.tenant_id, turn.project_id,
              "ai", "answer", 1, <<>>) }

\* the ledgers at most MaxHistory earlier queries left behind, over two projects
HistoryLedgers ==
  { UNION { project_turn_entries(Cardinality({ j \in chosen : j <= i }), HistoryTurns[i]) :
              i \in chosen } :
      chosen \in { c \in SUBSET (1..Len(HistoryTurns)) : Cardinality(c) <= MaxHistory } }

(***************************************************************************)
(* The upload handler of ProjectFiles.py.                                  *)
(***************************************************************************)
\* the invocation of handle_file_upload, before its request arrives
IdleUp ==
  [ pc |-> "idle", user_id |-> NoValue, tenant_id |-> NoValue, project_id |-> NoValue,
    statusCode |-> 0, error |-> NoValue, file_id |-> NoFileId,
    \* history of the invocation: the number of files its query counted
    current_file_count |-> NoCount ]

UpRespond(u, status_code, error) ==
  [u EXCEPT !.pc = "done", !.statusCode = status_code, !.error = error]

\* handle_file_upload up to create_file_record: the checks of the request and
\* the count of the files of the project against the tenant's MaxFiles
handle_file_upload_begin(u0, file_name, file_size, table, tenants, query_ok) ==
  LET tenant == find_tenant(u0.tenant_id, tenants)
      current_file_count ==
        Cardinality(query_items_by_tenant_project(table, u0.tenant_id, u0.project_id))
  IN  IF u0.project_id = NoValue THEN UpRespond(u0, 400, "Project ID is required")
      ELSE IF is_missing(file_name) THEN UpRespond(u0, 400, "file name is required")
      ELSE IF file_size = 0 THEN UpRespond(u0, 400, "file size is required")
      ELSE IF tenant = NoTenant THEN UpRespond(u0, 400, "Invalid tenant")
      \* table.query raised: the handler's except
      ELSE IF ~query_ok THEN UpRespond(u0, 500, "Internal server error")
      ELSE IF current_file_count >= tenant.MaxFiles
        THEN UpRespond([u0 EXCEPT !.current_file_count = current_file_count], 400,
                       "File limit exceeded")
      ELSE [u0 EXCEPT !.pc = "put", !.current_file_count = current_file_count]

\* str(uuid.uuid4()): an id no record of the table has
new_file_id(table) ==
  LET taken == { x.id : x \in table } \cup FileIds
  IN  1 + (CHOOSE m \in taken : \A n \in taken : n <= m)

\* handle_file_upload after create_file_record: the presigned URL and the response
after_create(u, file_id, url_ok) ==
  IF url_ok THEN [u EXCEPT !.pc = "done", !.statusCode = 200, !.file_id = file_id]
  ELSE UpRespond([u EXCEPT !.file_id = file_id], 500, "Failed to generate upload URL")

Times(last) == last..MaxClock

\* the state the handlers share when the deployment starts
InitStores ==
  /\ registry \in Registries
  /\ clock = 0
  /\ kbId \in {"kb1", NoValue}
  /\ rq = [p \in Procs |-> IdleRq]
  /\ served = 0
  /\ kbTable = {}
  /\ index = {}
  /\ ing = IdleIng
  /\ environ = EnvironConfigured
  /\ reap = IdleReap
  /\ del = IdleDel
  /\ bucket = objects_of(registry)
  /\ projects = projects_of(registry)
  /\ hist = IdleHist
  /\ stream = <<>>
  /\ up = [p \in Procs |-> IdleUp]

\* a query arrives after earlier queries have filled the ledger
Init ==
  /\ InitStores
  /\ ledger \in Ledgers
  /\ nextId = Cardinality(ledger) + 1
  /\ tenantsEnv = TenantsConfigured

(***************************************************************************)
(* The query handler, step by step.                                        *)
(***************************************************************************)
QueryTexts == {NoValue, "", "q1"}
\* projectId and sessionId come from the query string or from the body
QsProjects == {NoValue, "p2"}
BodyProjects == {NoValue, "", "p1"}
QsSessions == {NoValue, "s2"}
BodySessions == {NoValue, "", Blank, NonString, "s1"}

QStart(p) ==
  /\ rq[p].pc = "idle"
  /\ \E caller \in Callers, query \in QueryTexts, qp \in QsProjects, bp \in BodyProjects,
        qs \in QsSessions, bs \in BodySessions, registry_ok \in BOOLEAN :
       LET r0 == [IdleRq EXCEPT !.user_id = caller.user_id, !.tenant_id = caller.tenant_id,
                                !.query = query, !.before = ledger]
       IN  rq' = [rq EXCEPT ![p] = handle_query_begin(r0, PyOr(qp, bp), PyOr(qs, bs),
                                                      registry, kbId, registry_ok)]
  /\ UNCHANGED <<ingestVars, lifecycleVars, tenantsEnv, registry, ledger, nextId, clock, kbId, served>>

QAttempt(p) ==
  /\ rq[p].pc = "attempt"
  /\ \/ \E response \in Responses(rq[p].retrieve_params) :
          rq' = [rq EXCEPT ![p] = attempt_ok(rq[p], response)]
     \/ \E e \in Errors : rq' = [rq EXCEPT ![p] = attempt_failed(rq[p], e)]
  /\ UNCHANGED <<ingestVars, lifecycleVars, tenantsEnv, registry, ledger, nextId, clock, kbId, served>>

QRecover(p) ==
  /\ rq[p].pc = "recover"
  /\ \/ \E response \in RetryResponses(rq[p].retrieve_params, rq[p].session_id) :
          rq' = [rq EXCEPT ![p] = recover_ok(rq[p], response)]
     \/ \E e \in Errors : rq' = [rq EXCEPT ![p] = recover_failed(rq[p], e)]
  /\ UNCHANGED <<ingestVars, lifecycleVars, tenantsEnv, registry, ledger, nextId, clock, kbId, served>>

\* update_chat_history_session_id: the retrieval and the filter
QRekeyGet(p) ==
  /\ rq[p].pc = "rekey_get"
  /\ \E ok \in BOOLEAN, page_size \in 1..MaxPageSize :
       LET messages == get_chat_history_by_tenant_user(ledger, rq[p].tenant_id,
                                                       rq[p].user_id, page_size, ok)
           todo == messages_to_update(messages, rq[p].session_id)
       IN  rq' = [rq EXCEPT ![p] =
                    IF todo = <<>> THEN rekey_ended(rq[p], ~ok)
                    ELSE [rq[p] EXCEPT !.todo = todo, !.pc = "rekey_put"]]
  /\ UNCHANGED <<ingestVars, lifecycleVars, tenantsEnv, registry, ledger, nextId, clock, kbId, served>>

\* update_chat_history_session_id: the batch writer puts one updated item
QRekeyPut(p) ==
  /\ rq[p].pc = "rekey_put"
  /\ ledger' = put_item(ledger, updated_item(Head(rq[p].todo), rq[p].response.sessionId))
  /\ rq' = [rq EXCEPT ![p].todo = Tail(@),
                      ![p].pc = IF Tail(rq[p].todo) = <<>> THEN "save_user" ELSE "rekey_put"]
  /\ UNCHANGED <<ingestVars, lifecycleVars, tenantsEnv, registry, nextId, clock, kbId, served>>

\* update_chat_history_session_id: the batch writer raises, the rest is not written
QRekeyFail(p) ==
  /\ rq[p].pc = "rekey_put"
  /\ rq' = [rq EXCEPT ![p] = rekey_ended(rq[p], TRUE)]
  /\ UNCHANGED <<ingestVars, lifecycleVars, tenantsEnv, registry, ledger, nextId, clock, kbId, served>>

\* timestamp = int(time.time()), then the user message
QSaveUser(p) ==
  /\ rq[p].pc = "save_user"
  /\ \E ok \in BOOLEAN, now \in Times(clock) :
       LET r == rq[p]
           item == chat_item(nextId, entry_session(r), r.user_id, r.tenant_id,
                             r.project_id, "user", r.query, now, <<>>)
       IN  /\ ledger' = save_chat_message(ledger, item, ok)
           /\ rq' = [rq EXCEPT ![p] =
                       after_save([r EXCEPT !.timestamp = now, !.pc = "save_ai"], ok, "user")]
           /\ clock' = now
  /\ nextId' = nextId + 1
  /\ UNCHANGED <<ingestVars, lifecycleVars, tenantsEnv, registry, kbId, served>>

QSaveAi(p) ==
  /\ rq[p].pc = "save_ai"
  /\ \E ok \in BOOLEAN :
       LET r == rq[p]
           item == chat_item(nextId, entry_session(r), r.user_id, r.tenant_id,
                             r.project_id, "ai", r.response.text,
                             ai_timestamp(r.timestamp), extract_sources(r.response))
       IN  /\ ledger' = save_chat_message(ledger, item, ok)
           /\ rq' = [rq EXCEPT ![p] = after_save(respond_ok(r), ok, "ai")]
  /\ nextId' = nextId + 1
  /\ UNCHANGED <<ingestVars, lifecycleVars, tenantsEnv, registry, clock, kbId, served>>

\* one invocation, from its request to its response
Next ==
  \/ QStart(1)
  \/ QAttempt(1)
  \/ QRecover(1)
  \/ QRekeyGet(1)
  \/ QRekeyPut(1)
  \/ QRekeyFail(1)
  \/ QSaveUser(1)
  \/ QSaveAi(1)

Spec == Init /\ [][Next]_vars

(***************************************************************************)
(* Properties of the query handler, checked under Spec.                    *)
(***************************************************************************)
\* the ledger entries that were not there when invocation p started
NewEntries(p) == { m \in ledger : \A b \in rq[p].before : b.id # m.id }

\* the request of invocation p got as far as asking the File Registry, which answered
Resolved(p) ==
  /\ rq[p].pc # "idle"
  /\ Truthy(rq[p].query) /\ Truthy(kbId) /\ Truthy(rq[p].project_id)
  /\ rq[p].registry_ok

\* the first service call of invocation p failed with the invalid-session
\* validation error while it carried a sessionId
FirstCallRecoverable(p) ==
  /\ Len(rq[p].calls) >= 1
  /\ IsInvalidSessionError(rq[p].calls[1].error)
  /\ rq[p].calls[1].params.sessionId # NoValue

\* invocation p returned 200 after a recovery
RecoveredReturn(p) ==
  rq[p].pc = "done" /\ rq[p].statusCode = 200 /\ rq[p].session_changed

\* C1: every retrieve_and_generate call of a query by tenant T for project P, the
\* retry included, carries the filter tenantId = T, projectId = P, fileId in the
\* file ids the File Registry holds for (T, P); no call goes without it.
C1_EveryCallFiltered ==
  \A p \in Procs : \A i \in 1..Len(rq[p].calls) :
    LET f == rq[p].calls[i].params.filter
    IN  /\ f.tenantId = rq[p].tenant_id
        /\ f.projectId = rq[p].project_id
        /\ f.fileId # {}
        /\ f.fileId = { item.id : item \in { x \in registry :
                          x.tenantId = rq[p].tenant_id /\ x.projectId = rq[p].project_id } }

\* the retry after a recovery was issued while another tenant and another
\* project of the same tenant hold files too
C1_Witness ==
  \E p \in Procs :
    /\ Len(rq[p].calls) = 2
    /\ \E x \in registry : x.tenantId # rq[p].tenant_id \/ x.projectId # rq[p].project_id

\* C2: a query whose resolved file set is empty is answered 404 with no service
\* call and with the ledger as it was.
C2_NoFilesRejected ==
  \A p \in Procs :
    (Resolved(p) /\ ~\E x \in registry :
        x.tenantId = rq[p].tenant_id /\ x.projectId = rq[p].project_id)
    => /\ rq[p].pc = "done"
       /\ rq[p].statusCode = 404
       /\ rq[p].calls = <<>>
       /\ ledger = rq[p].before

\* a 404 for a project without files while the ledger and the registry hold
\* entries of others
C2_Witness ==
  \E p \in Procs :
    /\ rq[p].pc = "done" /\ rq[p].statusCode = 404
    /\ registry # {} /\ ledger # {}

\* C3: after a first call that failed with the invalid-session error and carried
\* a sessionId there is exactly one further call, with the same parameters less
\* sessionId; a query never makes more than two calls.
C3_RetryOnceWithoutSession ==
  \A p \in Procs :
    /\ Len(rq[p].calls) <= 2
    /\ FirstCallRecoverable(p) =>
         LET without == [rq[p].calls[1].params EXCEPT !.sessionId = NoValue]
         IN  IF rq[p].pc = "recover"
               THEN Len(rq[p].calls) = 1 /\ rq[p].retrieve_params = without
             ELSE Len(rq[p].calls) = 2 /\ rq[p].calls[2].params = without
    /\ Len(rq[p].calls) = 2 => FirstCallRecoverable(p)

\* the retry has been issued
C3_Witness ==
  \E p \in Procs :
    /\ FirstCallRecoverable(p) /\ Len(rq[p].calls) = 2
    /\ rq[p].calls[1].params.sessionId \in Sessions

\* the entries of the caller that were filed under the old session id when the
\* invocation started are now filed under the new one, and none of the caller's
\* entries is filed under the old one
Rekeyed(p) ==
  LET old == rq[p].session_id
      new == rq[p].response.sessionId
      mine(m) == m.tenantId = rq[p].tenant_id /\ m.userId = rq[p].user_id
  IN  /\ \A b \in rq[p].before :
           (mine(b) /\ b.sessionId = old) => [b EXCEPT !.sessionId = new] \in ledger
      /\ \A m \in ledger : mine(m) => m.sessionId # old

C5_OtherFailuresPropagate ==
  \A p \in Procs :
    /\ Len(rq[p].calls) <= 2
    /\ (Len(rq[p].calls) >= 1 /\ rq[p].calls[1].error # NoError /\ ~FirstCallRecoverable(p))
         => /\ rq[p].pc = "done" /\ rq[p].statusCode = 500
            /\ rq[p].detail = rq[p].calls[1].error
            /\ Len(rq[p].calls) = 1
    /\ (Len(rq[p].calls) = 2 /\ rq[p].calls[2].error # NoError)
         => /\ rq[p].pc = "done" /\ rq[p].statusCode = 500
            /\ rq[p].detail = rq[p].calls[2].error

\* the retry failed, and a first call with a sessionId failed with another error
C5_Witness ==
  \E p \in Procs :
    /\ rq[p].pc = "done" /\ rq[p].statusCode = 500
    /\ Len(rq[p].calls) = 2 /\ rq[p].calls[2].error # NoError

\* the two new entries of a successful query: a user entry with the query text
\* and an ai entry with the answer, the ai entry strictly later
TwoNewEntries(p) ==
  LET new == NewEntries(p)
  IN  /\ Cardinality(new) = 2
      /\ \E u \in new, a \in new :
           /\ u.type = "user" /\ u.content = rq[p].query
           /\ a.type = "ai" /\ a.content = rq[p].response.text
           /\ a.timestamp > u.timestamp

\* C6 as claimed: every query answered 200 leaves exactly two new entries.
\* (Refuted: an append that fails is swallowed and the 200 is returned.)
C6_Original ==
  \A p \in Procs : (rq[p].pc = "done" /\ rq[p].statusCode = 200) => TwoNewEntries(p)

\* C6 as amended: a query answered 200 leaves one new user entry with the query
\* text unless the user append failed, one new ai entry with the answer unless
\* the ai append failed, and no other new entry; with both appended there are
\* exactly two, and the ai entry's timestamp is strictly greater.
C6_TwoEntriesUnlessAppendFailed ==
  \A p \in Procs : (rq[p].pc = "done" /\ rq[p].statusCode = 200) =>
    LET new == NewEntries(p)
        users == { m \in new : m.type = "user" }
        ais == { m \in new : m.type = "ai" }
    IN  /\ new = users \cup ais
        /\ Cardinality(users) = IF "user" \in rq[p].save_failed THEN 0 ELSE 1
        /\ Cardinality(ais) = IF "ai" \in rq[p].save_failed THEN 0 ELSE 1
        /\ \A u \in users : u.content = rq[p].query
        /\ \A a \in ais : a.content = rq[p].response.text
        /\ \A u \in users, a \in ais : a.timestamp > u.timestamp
        /\ rq[p].save_failed = {} => TwoNewEntries(p)

\* a 200 after a recovery with both entries appended
C6_Witness ==
  \E p \in Procs :
    /\ RecoveredReturn(p) /\ rq[p].save_failed = {}
    /\ Cardinality(NewEntries(p)) = 2

\* C7: once the service has answered, handle_query ends with the 200 carrying
\* the service response and the filters, whichever appends fail.
C7_AppendFailureSwallowed ==
  \A p \in Procs :
    (Len(rq[p].calls) >= 1 /\ rq[p].calls[Len(rq[p].calls)].error = NoError) =>
      /\ rq[p].pc \in {"rekey_get", "rekey_put", "save_user", "save_ai", "done"}
      /\ rq[p].pc = "done" =>
           /\ rq[p].statusCode = 200
           /\ rq[p].body.results = rq[p].response
           /\ rq[p].body.filters =
                [ fileIds |-> rq[p].calls[1].params.filter.fileId,
                  projectId |-> rq[p].project_id, tenantId |-> rq[p].tenant_id,
                  userId |-> rq[p].user_id ]

\* a 200 although both appends failed
C7_Witness ==
  \E p \in Procs :
    /\ rq[p].pc = "done" /\ rq[p].statusCode = 200
    /\ rq[p].save_failed = {"user", "ai"}

\* invocation p is past its re-key and has not yet appended
RekeyOver(p) == rq[p].pc = "save_user" /\ rq[p].session_changed /\ Truthy(rq[p].session_id)

\* entry b was the caller's and filed under the session id the caller sent
OfOldSession(p, b) ==
  /\ b.tenantId = rq[p].tenant_id /\ b.userId = rq[p].user_id
  /\ b.sessionId = rq[p].session_id

\* C21: the re-key from old to new rewrites exactly the caller's entries filed
\* under old, changing only their sessionId to new and keeping their ids; the
\* ledger has as many entries as before and every other entry is as it was.
\* While the writes are in progress, or after a failed re-key, an entry of the
\* old session is either rewritten so or still as it was.
C21_RekeyRewritesOnlyOldSession ==
  \A p \in Procs : (rq[p].pc = "rekey_put" \/ RekeyOver(p)) =>
    LET new == rq[p].response.sessionId
        rewritten(b) == [b EXCEPT !.sessionId = new]
    IN  /\ Cardinality(ledger) = Cardinality(rq[p].before)
        /\ { m.id : m \in ledger } = { b.id : b \in rq[p].before }
        /\ \A b \in rq[p].before :
             IF OfOldSession(p, b)
               THEN (rewritten(b) \in ledger) \/ (b \in ledger)
             ELSE b \in ledger
        /\ (RekeyOver(p) /\ ~rq[p].rekey_failed) =>
             ledger = { IF OfOldSession(p, b) THEN rewritten(b) ELSE b : b \in rq[p].before }

\* a finished re-key that rewrote entries of the old session while the caller
\* held entries of a third session, which are still as they were
C21_Witness ==
  \E p \in Procs :
    /\ RekeyOver(p) /\ ~rq[p].rekey_failed
    /\ \E b \in rq[p].before : OfOldSession(p, b) /\ b \notin ledger
    /\ \E b \in rq[p].before :
         /\ b.tenantId = rq[p].tenant_id /\ b.userId = rq[p].user_id
         /\ b.sessionId \notin {rq[p].session_id, rq[p].response.sessionId}
         /\ b \in ledger

\* C22: when the re-key of a recovered query fails, in its retrieval or in one
\* of its writes, the query still goes on to its appends and ends with the 200
\* that carries the service response; the user entry and the ai entry it appends
\* (each unless that append itself fails, which is swallowed too) are filed
\* under the new session id.
C22_RekeyFailureNotPropagated ==
  \A p \in Procs : (rq[p].session_changed /\ rq[p].rekey_failed) =>
    /\ rq[p].pc \in {"save_user", "save_ai", "done"}
    /\ rq[p].pc = "done" =>
         /\ rq[p].statusCode = 200
         /\ rq[p].body.results = rq[p].response
         /\ \A m \in NewEntries(p) : m.sessionId = rq[p].response.sessionId
         /\ \A t \in {"user", "ai"} \ rq[p].save_failed :
              \E m \in NewEntries(p) : m.type = t

\* a 200 after a re-key that failed and left an entry under the old session id,
\* with both entries appended under the new one
C22_Witness ==
  \E p \in Procs :
    /\ RecoveredReturn(p) /\ rq[p].rekey_failed /\ rq[p].save_failed = {}
    /\ \E b \in ledger : OfOldSession(p, b)
    /\ Cardinality(NewEntries(p)) = 2

\* C25: the first service call carries sessionId exactly when the session id of
\* the request is a string that is neither empty nor blank, and then it is that
\* string; a query whose session id is absent, empty, blank or not a string makes
\* its first call without sessionId, makes no second call, is never marked as
\* recovered and rewrites no ledger entry.
C25_SessionIdOnlyWhenSupplied ==
  \A p \in Procs : Len(rq[p].calls) >= 1 =>
    /\ rq[p].calls[1].params.sessionId =
         IF rq[p].session_id \in Sessions THEN rq[p].session_id ELSE NoValue
    /\ rq[p].session_id \notin Sessions =>
         /\ Len(rq[p].calls) = 1
         /\ rq[p].pc \notin {"recover", "rekey_get", "rekey_put"}
         /\ ~rq[p].session_changed /\ ~rq[p].rekey_failed
         /\ rq[p].before \subseteq ledger

\* a query with a blank session id whose only call failed with the
\* invalid-session error: it ended with the 500, not with a recovery
C25_Witness ==
  \E p \in Procs :
    /\ rq[p].session_id = Blank
    /\ rq[p].pc = "done" /\ rq[p].statusCode = 500
    /\ Len(rq[p].calls) = 1 /\ IsInvalidSessionError(rq[p].calls[1].error)
    /\ ledger # {}

\* C35: a query that ends with anything but the 200 leaves the ledger as it
\* found it: no entry appended, none re-keyed; so does a query whose retry after
\* the recovery failed.
C35_FailedQueryLeavesLedger ==
  \A p \in Procs :
    (rq[p].pc = "done" /\ rq[p].statusCode # 200) => ledger = rq[p].before

\* the retry of a query failed while the ledger held entries of the caller
\* under the session id the query sent
C35_Witness ==
  \E p \in Procs :
    /\ rq[p].pc = "done" /\ rq[p].statusCode = 500
    /\ Len(rq[p].calls) = 2 /\ rq[p].calls[2].error # NoError
    /\ \E b \in ledger : OfOldSession(p, b)

\* the first service call of invocation p was answered
FirstCallAnswered(p) == Len(rq[p].calls) = 1 /\ rq[p].calls[1].error = NoError

\* C36: from the moment its first service call is answered, a query changes no
\* entry the ledger held; when it has returned its 200, what it added are its
\* user entry and its ai entry (each unless that append failed), both filed
\* under the session id of the service response.
C36_NoRecoveryOnlyAppends ==
  \A p \in Procs : FirstCallAnswered(p) =>
    /\ rq[p].before \subseteq ledger
    /\ \A m \in NewEntries(p) :
         /\ m.sessionId = rq[p].response.sessionId
         /\ m.tenantId = rq[p].tenant_id /\ m.userId = rq[p].user_id
         /\ m.type \in {"user", "ai"}
    /\ rq[p].pc = "done" =>
         /\ rq[p].statusCode = 200
         /\ \A t \in {"user", "ai"} :
              Cardinality({ m \in NewEntries(p) : m.type = t }) =
                IF t \in rq[p].save_failed THEN 0 ELSE 1

\* a 200 without recovery for a query that sent no session id: its two entries
\* are filed under the id the service minted, next to entries of the caller
\* that are as they were
C36_Witness ==
  \E p \in Procs :
    /\ FirstCallAnswered(p) /\ rq[p].pc = "done" /\ rq[p].session_id = NoValue
    /\ Cardinality(NewEntries(p)) = 2
    /\ \E b \in rq[p].before : b.tenantId = rq[p].tenant_id /\ b.userId = rq[p].user_id

(***************************************************************************)
(* The ingestion handler, step by step.                                    *)
(***************************************************************************)
IngestProjects == {NoValue, "", "p1", "p2"}

IStart ==
  /\ ing.pc = "idle"
  /\ served < MaxRequests
  /\ \E caller \in Callers, project_id \in IngestProjects, files_ok \in BOOLEAN,
        now \in Times(clock) :
       LET g0 == [IdleIng EXCEPT !.user_id = caller.user_id,
                                 !.tenant_id = caller.tenant_id,
                                 !.project_id = project_id,
                                 !.before = kbTable, !.index_before = index]
           g1 == ingest_begin(g0, registry, kbId, tenantsEnv, files_ok, now)
       IN  /\ ing' = g1
           \* the clock is read only when ingest_files computes ttl
           /\ clock' = IF g1.pc = "put" \/ g1.statusCode = 200 THEN now ELSE clock
  /\ UNCHANGED <<lifecycleVars, registry, ledger, nextId, kbId, tenantsEnv, rq, served, kbTable, index>>

\* knowledge_base_files_table.put_item(...) for the file at hand
IPut ==
  /\ ing.pc = "put"
  /\ \E ok \in BOOLEAN, now \in Times(clock) :
       LET item == file_record(ing.files[ing.i], ing.user_id, ing.tenant_id,
                               ing.project_id, now, ing.ttl)
       IN  IF ok
             THEN /\ kbTable' = put_item(kbTable, item)
                  /\ ing' = [ing EXCEPT !.pc = "submit", !.puts = Append(@, item)]
                  /\ clock' = now
           ELSE /\ ing' = IngRespond(ing, 500, "Internal server error")
                /\ UNCHANGED <<kbTable, clock>>
  /\ UNCHANGED <<lifecycleVars, registry, ledger, nextId, kbId, tenantsEnv, rq, served, index>>

\* bedrock_agent.ingest_knowledge_base_documents(...) for the file at hand
ISubmit ==
  /\ ing.pc = "submit"
  /\ \E ok \in BOOLEAN :
       LET doc == document(ing.files[ing.i], ing.user_id, ing.tenant_id, ing.project_id)
       IN  IF ok
             THEN /\ index' = index_put(index, doc)
                  /\ ing' = after_submit([ing EXCEPT !.submitted = Append(@, doc)])
           ELSE /\ ing' = submit_failed(ing)
                /\ UNCHANGED index
  /\ UNCHANGED <<lifecycleVars, registry, ledger, nextId, clock, kbId, tenantsEnv, rq, served, kbTable>>

IReturn ==
  /\ ing.pc = "done"
  /\ ing' = IdleIng
  /\ served' = served + 1
  /\ UNCHANGED <<lifecycleVars, registry, ledger, nextId, clock, kbId, tenantsEnv, rq, kbTable, index>>

NextIngest ==
  \/ IStart
  \/ IPut
  \/ ISubmit
  \/ IReturn

InitIngest ==
  /\ InitStores
  /\ ledger = {}
  /\ nextId = 1
  /\ tenantsEnv \in TenantsEnvs

SpecIngest == InitIngest /\ [][NextIngest]_vars

(***************************************************************************)
(* Properties of the ingestion handler, checked under SpecIngest.          *)
(***************************************************************************)
\* the File Registry records of the project the invocation ingests
ProjectFiles ==
  { x \in registry : x.tenantId = ing.tenant_id /\ x.projectId = ing.project_id }

\* the retention the TENANTS variable gives a tenant, in hours
TTLHours(tenant_id) == (CHOOSE t \in tenantsEnv.Tenants : t.Id = tenant_id).FilesTTLHours

\* C8: a successful ingestion of a project with N >= 1 files writes exactly N
\* FileRecords, one per file id and ready, and submits exactly N documents, one
\* per file id, each with the tags userId, tenantId, projectId and fileId, the
\* fileId being the document identifier.
C8_OneRecordAndDocumentPerFile ==
  (ing.pc = "done" /\ ing.statusCode = 200) =>
    LET ids == { x.id : x \in ProjectFiles }
        N == Cardinality(ids)
    IN  /\ N >= 1
        /\ Len(ing.puts) = N /\ { ing.puts[i].id : i \in 1..N } = ids
        /\ Len(ing.submitted) = N /\ { ing.submitted[i].id : i \in 1..N } = ids
        /\ \A i \in 1..N :
             /\ ing.puts[i].documentStatus = "ready"
             /\ ing.puts[i].tenantId = ing.tenant_id
             /\ ing.puts[i] \in kbTable
             /\ ing.submitted[i].attributes =
                  [ userId |-> ing.user_id, tenantId |-> ing.tenant_id,
                    projectId |-> ing.project_id, fileId |-> ing.submitted[i].id ]
             /\ ing.submitted[i] \in index
        /\ Cardinality({ r \in kbTable : r.tenantId = ing.tenant_id /\ r.id \in ids }) = N

\* a successful ingestion of a project with two files
C8_Witness ==
  /\ ing.pc = "done" /\ ing.statusCode = 200
  /\ Cardinality(ProjectFiles) = 2

\* C9 as claimed: every FileRecord the ingestion wrote has
\* ttl = createdAt + tenantFilesTTLHours*3600.  (Refuted: ttl is computed from a
\* reading of the clock taken before the loop, createdAt from a later one.)
C9_TtlFromCreatedAt ==
  \A r \in kbTable : r.ttl = r.createdAt + TTLHours(r.tenantId) * 3600

\* C10: the ingestion of a project without files is never answered 200 and
\* touches neither the table nor the index; with the knowledge base configured it
\* is answered 400.
C10_NoFilesIsCallerError ==
  (ing.pc # "idle" /\ Truthy(ing.project_id) /\ ProjectFiles = {}) =>
    /\ ing.pc = "done"
    /\ ing.statusCode # 200
    /\ Truthy(kbId) => (ing.statusCode = 400 /\ ing.error = "Project requires files")
    /\ kbTable = ing.before /\ index = ing.index_before
    /\ ing.puts = <<>> /\ ing.submitted = <<>>

\* a 400 for a project without files while the tenant is configured and other
\* projects hold files
C10_Witness ==
  /\ ing.pc = "done" /\ ing.statusCode = 400 /\ Truthy(ing.project_id)
  /\ ProjectFiles = {} /\ registry # {}
  /\ tenant_config_ok(tenantsEnv, ing.tenant_id)

\* the TENANTS variable parses and has an entry for the tenant
TenantKnown(tenant_id) ==
  tenantsEnv.kind = "json" /\ \E t \in tenantsEnv.Tenants : t.Id = tenant_id

\* C11: when the tenant configuration is missing, malformed or without an entry
\* for the caller's tenant, the ingestion never answers 200, writes no FileRecord
\* and submits no document.
C11_BadTenantConfigFailsFast ==
  (ing.pc # "idle" /\ ~TenantKnown(ing.tenant_id)) =>
    /\ ing.pc = "done"
    /\ ing.statusCode # 200
    /\ ing.puts = <<>> /\ ing.submitted = <<>>
    /\ kbTable = ing.before /\ index = ing.index_before

\* the 500 of a caller whose tenant has no entry, for a project with files
C11_Witness ==
  /\ ing.pc = "done" /\ ing.statusCode = 500
  /\ Truthy(kbId) /\ ProjectFiles # {}
  /\ tenantsEnv.kind = "json" /\ ~TenantKnown(ing.tenant_id)

\* the submission of the k-th file failed: k records were put, k-1 documents
\* submitted, and the invocation is over
SubmissionFailedAt(k) ==
  ing.pc = "done" /\ Len(ing.puts) = k /\ Len(ing.submitted) = k - 1

\* C12: when the submission of the k-th file fails the answer is the 500, the
\* records of files 1..k stay in the table, and nothing is put or submitted for
\* the files after k.
C12_SubmissionFailureStopsBatch ==
  /\ Len(ing.submitted) <= Len(ing.puts) /\ Len(ing.puts) <= Len(ing.submitted) + 1
  /\ \A k \in 1..MaxFileId : SubmissionFailedAt(k) =>
       /\ ing.statusCode = 500
       /\ \A j \in 1..k : ing.puts[j].id = ing.files[j].id /\ ing.puts[j] \in kbTable
       /\ \A j \in 1..(k - 1) : ing.submitted[j].id = ing.files[j].id
       /\ \A j \in (k + 1)..Len(ing.files) :
            /\ { r \in kbTable : r.id = ing.files[j].id }
                 = { r \in ing.before : r.id = ing.files[j].id }
            /\ { d \in index : d.id = ing.files[j].id }
                 = { d \in ing.index_before : d.id = ing.files[j].id }
       /\ { d \in index : d.id = ing.files[k].id }
            = { d \in ing.index_before : d.id = ing.files[k].id }

\* the submission of the first of two files failed on a fresh table
C12_Witness ==
  /\ SubmissionFailedAt(1) /\ Len(ing.files) = 2 /\ ing.before = {}
  /\ ing.statusCode = 500 /\ Cardinality(kbTable) = 1

\* some submissions of the batch succeeded and one failed
PartialFailure ==
  ing.pc = "done" /\ Len(ing.submitted) >= 1 /\ Len(ing.puts) > Len(ing.submitted)

\* C13 as claimed: the outcome of a partly failed batch is not one of the two
\* all-or-nothing verdicts (the bare error, the all-ready message) but carries
\* the counts.  (Refuted: the first failure ends the batch with the bare error.)
C13_PartialFailureReportsCounts ==
  PartialFailure =>
    DOMAIN ingest_body(ing) \notin {{"error"}, {"itemStatus", "message"}}

\* the keys (tenantId, id) of the records of a table
Keys(table) == { <<r.tenantId, r.id>> : r \in table }

\* C14: the table never holds two FileRecords under one key (tenantId, id),
\* whatever runs came before, and a successful run over a project that a run
\* already ingested leaves the set of keys as it was.
C14_ReingestionKeepsOneRecordPerKey ==
  /\ \A a \in kbTable, b \in kbTable : (a.tenantId = b.tenantId /\ a.id = b.id) => a = b
  /\ (ing.pc = "done" /\ ing.statusCode = 200) =>
       LET mine == { <<x.tenantId, x.id>> : x \in ProjectFiles }
       IN  /\ Keys(kbTable) = Keys(ing.before) \cup mine
           /\ mine \subseteq Keys(ing.before) => Keys(kbTable) = Keys(ing.before)

\* a second successful run over two files, later than the first
C14_Witness ==
  /\ ing.pc = "done" /\ ing.statusCode = 200 /\ Cardinality(ProjectFiles) = 2
  /\ Keys(ing.before) = { <<x.tenantId, x.id>> : x \in ProjectFiles }
  /\ ing.before # kbTable

\* C19 as claimed: an id has a FileRecord exactly when a document with that id is
\* in the index or is being submitted.  (Refuted: the record is put before the
\* submission and stays when the submission fails.)
C19_RecordIffDocument ==
  \A id \in FileIds :
    (\E r \in kbTable : r.id = id)
      <=> \/ \E d \in index : d.id = id
          \/ ing.pc = "submit" /\ ing.files[ing.i].id = id

(***************************************************************************)
(* The Expiry Reaper, record by record.                                    *)
(***************************************************************************)
RStart ==
  /\ reap.pc = "idle"
  /\ \E records \in Batches :
       reap' = reaper_begin([IdleReap EXCEPT !.records = records, !.index_before = index],
                            kbId, environ)
  /\ UNCHANGED <<up, ingestVars, hist, stream, environ, del, bucket, projects, registry, ledger, nextId,
                 clock, kbId, tenantsEnv, rq, served>>

\* a record that is not an expiry, or whose key is incomplete
RSkip ==
  /\ reap.pc = "record"
  /\ ~(is_ttl_expiration(reap.records[reap.i]) /\ has_keys(reap.records[reap.i]))
  /\ reap' = record_skipped(reap)
  /\ UNCHANGED <<up, ingestVars, hist, stream, environ, del, bucket, projects, registry, ledger, nextId,
                 clock, kbId, tenantsEnv, rq, served>>

\* bedrock_agent.delete_knowledge_base_documents(...) for an expired file
RDelete ==
  /\ reap.pc = "record"
  /\ is_ttl_expiration(reap.records[reap.i]) /\ has_keys(reap.records[reap.i])
  /\ \E ok \in BOOLEAN :
       IF ok
         THEN /\ index' = index_delete(index, reap.records[reap.i].Keys.id)
              /\ reap' = delete_succeeded(request_issued(reap, TRUE))
       ELSE /\ reap' = delete_failed(request_issued(reap, FALSE))
            /\ UNCHANGED index
  /\ UNCHANGED <<up, kbTable, ing, hist, stream, environ, del, bucket, projects, registry, ledger, nextId,
                 clock, kbId, tenantsEnv, rq, served>>

NextReaper ==
  \/ RStart
  \/ RSkip
  \/ RDelete

\* every file was ingested and the records of the table have expired since
InitReaper ==
  /\ registry = { FileItem(id, FileOwner(id)) : id \in FileIds }
  /\ ledger = {}
  /\ nextId = 1
  /\ clock = 0
  /\ kbId \in {"kb1", NoValue}
  /\ tenantsEnv = TenantsConfigured
  /\ rq = [p \in Procs |-> IdleRq]
  /\ served = 0
  /\ kbTable = {}
  /\ index = ingested_documents(registry)
  /\ ing = IdleIng
  /\ environ \in Environs
  /\ reap = IdleReap
  /\ del = IdleDel
  /\ bucket = objects_of(registry)
  /\ projects = projects_of(registry)
  /\ hist = IdleHist
  /\ stream = <<>>
  /\ up = [p \in Procs |-> IdleUp]

SpecReaper == InitReaper /\ [][NextReaper]_vars

(***************************************************************************)
(* Properties of the Expiry Reaper, checked under SpecReaper.              *)
(***************************************************************************)
\* the three settings the handler asks for are there
ReaperConfigured ==
  /\ Truthy(kbId)
  /\ Truthy(environ.DATA_SOURCE_ID) /\ Truthy(environ.KNOWLEDGE_BASE_FILES_TABLE)

\* a removal the time-to-live service made
SystemRemoval(record) == record.eventName = "REMOVE" /\ record.userIdentity = TtlService

\* the positions of the batch the loop has dealt with
Handled ==
  IF reap.pc = "record" THEN 1..(reap.i - 1)
  ELSE IF reap.pc = "done" /\ reap.statusCode = 200 THEN 1..Len(reap.records)
  ELSE {}

\* the positions of the system-initiated removals of the batch
SystemRemovals == { p \in 1..Len(reap.records) : SystemRemoval(reap.records[p]) }

\* C15: with the configuration present, the deletion requests issued so far are,
\* in order, one per system-initiated removal dealt with so far, each for the
\* file id of its record; no other record has a request.
C15_OneDeletionPerSystemRemoval ==
  ReaperConfigured =>
    /\ \A k \in 1..Len(reap.requests) :
         /\ reap.requests[k].position \in Handled \cap SystemRemovals
         /\ reap.requests[k].id = reap.records[reap.requests[k].position].Keys.id
         /\ \A j \in 1..(k - 1) : reap.requests[j].position < reap.requests[k].position
    /\ \A p \in Handled \cap SystemRemovals :
         \E k \in 1..Len(reap.requests) : reap.requests[k].position = p

\* a batch of an expiry, a removal by a caller and an insertion has been dealt with
C15_Witness ==
  /\ reap.pc = "done" /\ reap.statusCode = 200 /\ Len(reap.records) = 3
  /\ Len(reap.requests) = 1
  /\ \E p \in 1..3 : reap.records[p] = stream_record("REMOVE", NoIdentity, 1)
  /\ \E p \in 1..3 : reap.records[p].eventName = "INSERT"

\* C16: when the handler has gone through a batch, every system-initiated
\* removal has exactly one deletion request, whichever requests failed; a
\* failed request never ends the loop.
C16_FailureDoesNotBlockLater ==
  /\ (ReaperConfigured /\ reap.pc = "done" /\ reap.records # <<>>) =>
       \A p \in SystemRemovals :
         Cardinality({ k \in 1..Len(reap.requests) : reap.requests[k].position = p }) = 1
  /\ \A k \in 1..Len(reap.requests) :
       (~reap.requests[k].ok /\ reap.pc = "done") => reap.statusCode = 200

\* the first deletion failed and two later ones were attempted
C16_Witness ==
  /\ reap.pc = "done" /\ Len(reap.requests) = 3
  /\ ~reap.requests[1].ok /\ reap.requests[3].ok

\* C17 as claimed: with the configuration present the handler ends with the 200
\* whose message carries a processed count and an error count that add up to
\* the number of system-initiated removals.  (Refuted: the 200 of the empty
\* batch carries no count.)
C17_Original ==
  (ReaperConfigured /\ reap.pc = "done") =>
    /\ reap.statusCode = 200
    /\ reap.message.processed # NoCount /\ reap.message.errors # NoCount
    /\ reap.message.processed + reap.message.errors = Cardinality(SystemRemovals)

\* C17 as amended: with the configuration present the handler ends with the 200;
\* for a batch that is not empty the message carries the number of deletions
\* that succeeded and the number that failed, which add up to the number of
\* system-initiated removals; for the empty batch it carries no count.
C17_CountsUnlessEmptyBatch ==
  (ReaperConfigured /\ reap.pc = "done") =>
    /\ reap.statusCode = 200
    /\ IF reap.records = <<>>
         THEN reap.message = [NoMessage EXCEPT !.text = "No records to process"]
       ELSE /\ reap.message.processed
                 = Cardinality({ k \in 1..Len(reap.requests) : reap.requests[k].ok })
            /\ reap.message.errors
                 = Cardinality({ k \in 1..Len(reap.requests) : ~reap.requests[k].ok })
            /\ reap.message.processed + reap.message.errors = Cardinality(SystemRemovals)

\* a batch with a deletion that succeeded, one that failed and a record that
\* does not qualify
C17_Witness ==
  /\ reap.pc = "done" /\ Len(reap.records) = 3
  /\ reap.message.processed = 1 /\ reap.message.errors = 1

\* C18: a batch without a system-initiated removal leads to no deletion request
\* and leaves the index as it was; with the configuration present it ends with
\* the 200 and no error.
C18_NoQualifyingRecordIsNoOp ==
  (reap.pc # "idle" /\ SystemRemovals = {}) =>
    /\ reap.requests = <<>>
    /\ index = reap.index_before
    /\ (ReaperConfigured /\ reap.pc = "done") =>
         (reap.statusCode = 200 /\ reap.error = NoValue)

\* the 200 for a batch of a removal by a caller and a removal by another service
C18_Witness ==
  /\ reap.pc = "done" /\ reap.statusCode = 200 /\ Len(reap.records) = 2
  /\ reap.records[1] = stream_record("REMOVE", NoIdentity, 1)
  /\ reap.records[2] = stream_record("REMOVE", OtherService, 1)

(***************************************************************************)
(* Explicit deletion of a file and of a project.                           *)
(***************************************************************************)
\* the call of a handler that raises, if any: the handler ends at the first
FileFaults == {"none", "get_item", "delete_object", "delete_item"}
ProjectFaults == {"none", "query", "batch_writer", "delete_objects", "delete_item"}

DeleteProjectFile ==
  /\ del.op = NoValue
  /\ \E caller \in Callers, id \in FileIds \cup {NoFileId}, fault \in FileFaults,
        kb_ok \in BOOLEAN :
    LET d0 == [IdleDel EXCEPT !.op = "delete_project_file", !.tenant_id = caller.tenant_id]
        out == delete_project_file(Stores(registry, bucket, index, projects), d0, id, kbId,
                                   environ, fault # "get_item", fault # "delete_object",
                                   kb_ok, fault # "delete_item")
    IN  /\ del' = out.del
        /\ registry' = out.st.registry
        /\ bucket' = out.st.bucket
        /\ index' = out.st.index
        /\ UNCHANGED <<up, hist, stream, environ, reap, projects, ledger, nextId, clock, kbId, tenantsEnv,
                       rq, served, kbTable, ing>>

DeleteProject ==
  /\ del.op = NoValue
  /\ \E caller \in Callers, project_id \in Projects \cup {NoValue}, fault \in ProjectFaults :
     \E kb_failed \in SUBSET get_file_ids(registry, caller.tenant_id, project_id) :
    LET d0 == [IdleDel EXCEPT !.op = "delete_project", !.tenant_id = caller.tenant_id]
        out == delete_project(Stores(registry, bucket, index, projects), d0, project_id, kbId,
                              environ, fault # "query", kb_failed, fault # "batch_writer",
                              fault # "delete_objects", fault # "delete_item")
    IN  /\ del' = out.del
        /\ registry' = out.st.registry
        /\ bucket' = out.st.bucket
        /\ index' = out.st.index
        /\ projects' = out.st.projects
        /\ UNCHANGED <<up, hist, stream, environ, reap, ledger, nextId, clock, kbId, tenantsEnv, rq, served,
                       kbTable, ing>>

NextDelete ==
  \/ DeleteProjectFile
  \/ DeleteProject

\* a deletion request arrives when the files of the registry have been ingested
InitDelete ==
  /\ registry \in Registries
  /\ ledger = {}
  /\ nextId = 1
  /\ clock = 0
  /\ kbId \in {"kb1", NoValue}
  /\ tenantsEnv = TenantsConfigured
  /\ rq = [p \in Procs |-> IdleRq]
  /\ served = 0
  /\ kbTable = ingested_records(registry, tenantsEnv)
  /\ index = ingested_documents(registry)
  /\ ing = IdleIng
  /\ environ \in Environs
  /\ reap = IdleReap
  /\ del = IdleDel
  /\ bucket = objects_of(registry)
  /\ projects = projects_of(registry)
  /\ hist = IdleHist
  /\ stream = <<>>
  /\ up = [p \in Procs |-> IdleUp]

SpecDelete == InitDelete /\ [][NextDelete]_vars

(***************************************************************************)
(* Properties of explicit deletion, checked under SpecDelete.              *)
(***************************************************************************)
\* C20 as claimed: after a delete_project_file or a delete_project that answered
\* 204, the knowledge-base-facing table holds no FileRecord of the file ids it
\* deleted.  (Refuted: neither handler writes to that table.)
C20_DeletionDestroysFileRecord ==
  del.statusCode = 204 =>
    \A r \in kbTable : ~(r.tenantId = del.tenant_id /\ r.id \in del.file_ids)

(***************************************************************************)
(* One request to a history endpoint.                                      *)
(***************************************************************************)
\* event['pathParameters']['id']
HistoryProjects == {"", "p1", "p2"}

\* GET /knowledge-base/history/{id}
HistoryGet ==
  /\ hist.op = NoValue
  /\ \E caller \in Callers, project_id \in HistoryProjects,
        page_size \in 1..MaxPageSize, ok \in BOOLEAN :
       LET h0 == [IdleHist EXCEPT !.op = "get", !.user_id = caller.user_id,
                                  !.tenant_id = caller.tenant_id,
                                  !.project_id = project_id, !.before = ledger]
       IN  hist' = handle_get_session(h0, ledger, page_size, ok)
  /\ UNCHANGED <<up, ingestVars, environ, reap, del, bucket, projects, stream, registry, ledger,
                 nextId, clock, kbId, tenantsEnv, rq, served>>

\* DELETE /knowledge-base/history/{id}
HistoryDelete ==
  /\ hist.op = NoValue
  /\ \E caller \in Callers, project_id \in HistoryProjects,
        page_size \in 1..MaxPageSize, get_ok \in BOOLEAN, batch_ok \in BOOLEAN :
       LET h0 == [IdleHist EXCEPT !.op = "delete", !.user_id = caller.user_id,
                                  !.tenant_id = caller.tenant_id,
                                  !.project_id = project_id, !.before = ledger]
           messages == delete_chat_session_messages(ledger, caller.tenant_id, project_id,
                                                    caller.user_id, page_size, get_ok)
       IN  /\ hist' = handle_delete_session(h0, page_size, get_ok, batch_ok)
           /\ IF is_missing(project_id) THEN ledger' = ledger
              ELSE \E flushed \in 0..Len(messages) :
                     /\ batch_ok => flushed = Len(messages)
                     /\ (~batch_ok /\ messages # <<>>) => flushed < Len(messages)
                     /\ ledger' = batch_delete_items(ledger, messages, batch_ok, flushed)
  /\ UNCHANGED <<up, ingestVars, environ, reap, del, bucket, projects, stream, registry,
                 nextId, clock, kbId, tenantsEnv, rq, served>>

NextHistory == HistoryGet \/ HistoryDelete

\* a history request arrives after earlier queries have filled the ledger
InitHistory ==
  /\ InitStores
  /\ ledger \in HistoryLedgers
  /\ nextId = Cardinality(ledger) + 1
  /\ tenantsEnv = TenantsConfigured

SpecHistory == InitHistory /\ [][NextHistory]_vars

(***************************************************************************)
(* Properties of the history endpoints, checked under SpecHistory.         *)
(***************************************************************************)
\* the entries of the caller of the history request in the ledger it found
CallerEntries ==
  { m \in hist.before : m.tenantId = hist.tenant_id /\ m.userId = hist.user_id }

\* C23: the history-deletion endpoint answers 200 with its confirmation only
\* when the bulk delete was called and reported success; when the bulk delete
\* reported failure the answer is the 404 and carries no confirmation.
C23_ConfirmationOnlyAfterBulkSuccess ==
  hist.op = "delete" =>
    /\ (hist.statusCode = 200 \/ hist.message # NoValue) => hist.bulk = "ok"
    /\ hist.bulk = "failed" =>
         /\ hist.statusCode = 404
         /\ hist.message = NoValue
         /\ hist.error = "Project chat history not found or not authorized"

\* a bulk delete that failed after it had deleted some entries of the caller
\* and not all: the caller got the 404
C23_Witness ==
  /\ hist.op = "delete" /\ hist.bulk = "failed" /\ hist.statusCode = 404
  /\ \E m \in CallerEntries : m \notin ledger
  /\ \E m \in CallerEntries : m \in ledger

\* C24: when its queries succeed, the retrieval of the history of (tenant, user)
\* returns every ledger entry of that tenant and user exactly once, in the order
\* of the store (here: ascending ids), and no entry of another tenant or user,
\* whatever the size of the pages the store delivers.
C24_RetrieveAllDrainsEveryPage ==
  (hist.op = "get" /\ hist.statusCode = 200 /\ hist.get_ok) =>
    /\ Range(hist.messages) = CallerEntries
    /\ Len(hist.messages) = Cardinality(CallerEntries)
    /\ hist.count = Len(hist.messages)
    /\ \A i \in 1..Len(hist.messages), j \in 1..Len(hist.messages) :
         i < j => hist.messages[i].id < hist.messages[j].id

\* a retrieval that took more pages than one, from a ledger that also holds
\* entries of another tenant or user
C24_Witness ==
  /\ hist.op = "get" /\ hist.statusCode = 200 /\ hist.get_ok
  /\ Len(hist.messages) > hist.page_size
  /\ hist.before # CallerEntries

\* C34: when the history-deletion endpoint has answered with its confirmation,
\* nothing else having run for that tenant and user, no ledger entry of that
\* tenant and user remains, also when the retrieval of the entries failed.
C34_ConfirmationMeansNothingLeft ==
  (hist.op = "delete" /\ hist.statusCode = 200) =>
    ~\E m \in ledger : m.tenantId = hist.tenant_id /\ m.userId = hist.user_id

\* C29: the history-deletion endpoint called for project P by (tenant, user)
\* leaves every ledger entry that is not an entry of that tenant and user with
\* projectId = P as it was.
C29_DeletesOnlyProjectEntries ==
  hist.op = "delete" =>
    \A b \in hist.before :
      ~(b \in CallerEntries /\ b.projectId = hist.project_id) => b \in ledger

(***************************************************************************)
(* One request to any of the three handlers that check the configuration:  *)
(* a query, an ingestion or a batch for the Expiry Reaper.                 *)
(***************************************************************************)
\* the invocation of the query handler, while no other handler has been invoked
AnyQuery == ing.pc = "idle" /\ reap.pc = "idle" /\ Next

\* the invocation of the ingestion handler, while no other handler has been invoked
AnyIngest == rq[1].pc = "idle" /\ reap.pc = "idle" /\ (IStart \/ IPut \/ ISubmit)

\* the invocation of the Expiry Reaper, while no other handler has been invoked
AnyReap == rq[1].pc = "idle" /\ ing.pc = "idle" /\ NextReaper

NextRequests == AnyQuery \/ AnyIngest \/ AnyReap

\* a deployment whose configuration may lack the knowledge base id, the data
\* source id or the table name
InitRequests ==
  /\ registry \in Registries
  /\ ledger = {}
  /\ nextId = 1
  /\ clock = 0
  /\ kbId \in {"kb1", NoValue}
  /\ tenantsEnv = TenantsConfigured
  /\ rq = [p \in Procs |-> IdleRq]
  /\ served = 0
  /\ kbTable = {}
  /\ index = {}
  /\ ing = IdleIng
  /\ environ \in Environs
  /\ reap = IdleReap
  /\ del = IdleDel
  /\ bucket = objects_of(registry)
  /\ projects = projects_of(registry)
  /\ hist = IdleHist
  /\ stream = <<>>
  /\ up = [p \in Procs |-> IdleUp]

SpecRequests == InitRequests /\ [][NextRequests]_vars

(***************************************************************************)
(* Properties of the checks the handlers start with, checked under         *)
(* SpecRequests.                                                           *)
(***************************************************************************)
\* the query handler has ended without a service call and without a change of
\* the ledger, and it built no filter from the File Registry
QueryRejected(p, status_code) ==
  /\ rq[p].pc = "done" /\ rq[p].statusCode = status_code
  /\ rq[p].calls = <<>> /\ rq[p].file_ids = {} /\ rq[p].retrieve_params = NoParams
  /\ ledger = rq[p].before

\* the ingestion handler has ended without a FileRecord write and without a
\* document submission
IngestRejected(status_code) ==
  /\ ing.pc = "done" /\ ing.statusCode = status_code
  /\ ing.puts = <<>> /\ ing.submitted = <<>>
  /\ kbTable = ing.before /\ index = ing.index_before

\* the Expiry Reaper has ended without a deletion request
ReaperRejected(status_code) ==
  /\ reap.pc = "done" /\ reap.statusCode = status_code
  /\ reap.requests = <<>> /\ index = reap.index_before

\* C26: with the knowledge base id configured, a query without query text (absent
\* or empty) and a query without project id end at once with the 400, with no
\* file id taken from the File Registry, no service call and the ledger as it
\* was; an ingestion request without project id ends at once with the 400, with
\* no FileRecord written and no document submitted.
C26_CallerErrorHasNoSideEffects ==
  /\ \A p \in Procs : rq[p].pc # "idle" =>
       /\ rq[p].query \in {NoValue, ""} => QueryRejected(p, 400)
       /\ (kbId = "kb1" /\ rq[p].project_id \in {NoValue, ""}) => QueryRejected(p, 400)
  /\ (ing.pc # "idle" /\ kbId = "kb1" /\ ing.project_id \in {NoValue, ""})
       => IngestRejected(400)

\* a query with its text and with an empty project id was answered 400 while
\* the File Registry held files of the caller's tenant
C26_Witness ==
  \E p \in Procs :
    /\ QueryRejected(p, 400) /\ rq[p].query = "q1" /\ rq[p].project_id = ""
    /\ rq[p].error = "Project ID is required"
    /\ \E x \in registry : x.tenantId = rq[p].tenant_id

\* C27 as claimed: without the knowledge base id each of the three handlers
\* ends with a 500 and no side effect, and so does the Expiry Reaper without
\* the data source id or the table name.  (Refuted for the query handler: a
\* query without query text is answered 400 before the configuration is read.)
C27_Original ==
  /\ \A p \in Procs : (rq[p].pc # "idle" /\ kbId = NoValue) => QueryRejected(p, 500)
  /\ (ing.pc # "idle" /\ kbId = NoValue) => IngestRejected(500)
  /\ (reap.pc # "idle" /\ ~ReaperConfigured) => ReaperRejected(500)

\* C27 as amended: without the knowledge base id the ingestion handler and the
\* Expiry Reaper end with a 500, and so does the query handler for a query that
\* carries query text (one without is answered 400 first); the Expiry Reaper also
\* ends with a 500 without the data source id or the table name.  In all these
\* cases no service call is issued and no store is written.
C27_ConfigurationErrorIsFatal ==
  /\ \A p \in Procs : (rq[p].pc # "idle" /\ kbId = NoValue) =>
       /\ QueryRejected(p, IF rq[p].query = "q1" THEN 500 ELSE 400)
       /\ rq[p].query = "q1" => rq[p].error = "Knowledge base ID not configured"
  /\ (ing.pc # "idle" /\ kbId = NoValue) =>
       /\ IngestRejected(500)
       /\ ing.error = "Knowledge base ID not configured"
  /\ (reap.pc # "idle" /\ ~ReaperConfigured) =>
       /\ ReaperRejected(500)
       /\ reap.error =
            IF kbId = NoValue THEN "Knowledge base ID not configured"
            ELSE IF environ.DATA_SOURCE_ID = NoValue THEN "Data source ID not configured"
            ELSE "Knowledge base files table name not configured"

\* without the table name, the Expiry Reaper ended with the 500 on a batch that
\* holds a removal by the time-to-live service
C27_Witness ==
  /\ kbId = "kb1" /\ environ.DATA_SOURCE_ID = "ds1"
  /\ environ.KNOWLEDGE_BASE_FILES_TABLE = NoValue
  /\ ReaperRejected(500)
  /\ \E k \in 1..Len(reap.records) : SystemRemoval(reap.records[k])

\* the query handler ended with a 500 that is not the configuration error
QueryFailed500(p) ==
  /\ rq[p].pc = "done" /\ rq[p].statusCode = 500
  /\ rq[p].error # "Knowledge base ID not configured"

\* the ingestion handler ended with a 500 that is not the configuration error
IngestFailed500 ==
  /\ ing.pc = "done" /\ ing.statusCode = 500
  /\ ing.error # "Knowledge base ID not configured"

\* C28: the body of every 500 the query handler and the ingestion handler
\* return for a failed store or service call is the generic internal error and
\* carries nothing of the underlying failure.
C28_TerminalErrorIsGeneric ==
  /\ \A p \in Procs : QueryFailed500(p) =>
       rq[p].error = "Internal server error" /\ rq[p].detail = NoError
  /\ IngestFailed500 => ingest_body(ing) = [error |-> "Internal server error"]

(***************************************************************************)
(* Expiry, re-ingestion and the Expiry Reaper side by side: the table      *)
(* removes expired records and notifies the reaper through its stream,     *)
(* while the ingestion handler may be invoked for the same files.          *)
(***************************************************************************)
\* the records an ingestion by the first user left for every file of a
\* registry as long ago as the tenant's retention: their ttl has elapsed
expired_records(table, env) ==
  { LET tenant == find_tenant(x.tenantId, env.Tenants)
        created_at == 0 - tenant.FilesTTLHours * SecondsPerHour
    IN  file_record(x, "u1", x.tenantId, x.projectId, created_at,
                    compute_ttl(created_at, tenant)) : x \in table }

\* the time-to-live service removes a record whose ttl has elapsed, and the
\* stream of the table carries the removal
Expire ==
  /\ Len(stream) < MaxBatch
  /\ \E item \in kbTable :
       /\ item.ttl <= clock
       /\ kbTable' = delete_item(kbTable, item.tenantId, item.id)
       /\ stream' = Append(stream, stream_record("REMOVE", TtlService, item.id))
  /\ UNCHANGED <<up, index, ing, hist, environ, reap, del, bucket, projects, registry, ledger,
                 nextId, clock, kbId, tenantsEnv, rq, served>>

\* the stream invokes lambda_handler with the removals it has not delivered yet
RDeliver ==
  /\ reap.pc = "idle"
  /\ stream # <<>>
  /\ reap' = reaper_begin([IdleReap EXCEPT !.records = stream, !.index_before = index],
                          kbId, environ)
  /\ stream' = <<>>
  /\ UNCHANGED <<up, ingestVars, hist, environ, del, bucket, projects, registry, ledger,
                 nextId, clock, kbId, tenantsEnv, rq, served>>

\* the stream carries removals by the time-to-live service only, so the loop
\* of the reaper has no record to pass over
NextExpiry ==
  \/ Expire
  \/ IStart
  \/ IPut
  \/ ISubmit
  \/ RDeliver
  \/ RDelete

\* the files of the first project of the first tenant were uploaded and
\* ingested, and the retention has elapsed
InitExpiry ==
  /\ registry = { FileItem(id, FileOwner(id)) :
                    id \in { f \in FileIds : FileOwner(f) = RegistryOwners[1] } }
  /\ ledger = {}
  /\ nextId = 1
  /\ clock = 0
  /\ kbId = "kb1"
  /\ tenantsEnv = TenantsConfigured
  /\ rq = [p \in Procs |-> IdleRq]
  /\ served = 0
  /\ kbTable = expired_records(registry, tenantsEnv)
  /\ index = ingested_documents(registry)
  /\ ing = IdleIng
  /\ environ = EnvironConfigured
  /\ reap = IdleReap
  /\ del = IdleDel
  /\ bucket = objects_of(registry)
  /\ projects = projects_of(registry)
  /\ hist = IdleHist
  /\ stream = <<>>
  /\ up = [p \in Procs |-> IdleUp]

SpecExpiry == InitExpiry /\ [][NextExpiry]_vars

(***************************************************************************)
(* Properties of expiry and re-ingestion, checked under SpecExpiry.        *)
(***************************************************************************)
\* no handler is running and no notification waits for delivery
Quiescent ==
  /\ ing.pc \in {"idle", "done"}
  /\ reap.pc \in {"idle", "done"}
  /\ stream = <<>>

\* C30: whenever no handler invocation and no notification is pending, and the
\* ingestion has not failed, every FileRecord of the knowledge-base-facing table
\* with documentStatus ready has its document in the index; in particular the
\* deletion the reaper makes for an expired record does not remove the document
\* of a file that was re-ingested in the meantime.
C30_LateDeletionSparesReingested ==
  (Quiescent /\ ing.statusCode # 500) =>
    \A item \in kbTable :
      item.documentStatus = "ready" => \E d \in index : d.id = item.id

(***************************************************************************)
(* The same query twice, the File Registry records of the other tenants    *)
(* changing in between: invocation 1 runs, the records of other tenants    *)
(* change, invocation 2 runs with the request of invocation 1.             *)
(***************************************************************************)
\* the File Registry records of a tenant
TenantRecords(table, tenant_id) == { x \in table : x.tenantId = tenant_id }

\* uploads and deletions by other tenants than the caller of invocation 1
OthersChange ==
  /\ rq[1].pc = "done" /\ rq[2].pc = "idle"
  /\ \E other \in Registries :
       /\ other # registry
       /\ TenantRecords(other, rq[1].tenant_id) = TenantRecords(registry, rq[1].tenant_id)
       /\ registry' = other
       /\ bucket' = objects_of(other)
       /\ projects' = projects_of(other)
  /\ UNCHANGED <<up, ingestVars, environ, reap, del, hist, stream, ledger, nextId, clock, kbId,
                 tenantsEnv, rq, served>>

\* invocation p gets the request invocation q was given
QStartAgain(p, q) ==
  /\ rq[p].pc = "idle" /\ rq[q].pc = "done"
  /\ \E registry_ok \in BOOLEAN :
       LET r0 == [IdleRq EXCEPT !.user_id = rq[q].user_id, !.tenant_id = rq[q].tenant_id,
                                !.query = rq[q].query, !.before = ledger]
       IN  rq' = [rq EXCEPT ![p] = handle_query_begin(r0, rq[q].project_id, rq[q].session_id,
                                                      registry, kbId, registry_ok)]
  /\ UNCHANGED <<ingestVars, lifecycleVars, tenantsEnv, registry, ledger, nextId, clock, kbId, served>>

NextScoping ==
  \/ Next
  \/ OthersChange
  \/ QStartAgain(2, 1)
  \/ QAttempt(2)
  \/ QRecover(2)
  \/ QRekeyGet(2)
  \/ QRekeyPut(2)
  \/ QRekeyFail(2)
  \/ QSaveUser(2)
  \/ QSaveAi(2)

\* a configured deployment with an empty ledger, every file id uploaded
InitScoping ==
  /\ InitStores
  /\ registry = { FileItem(id, FileOwner(id)) : id \in FileIds }
  /\ kbId = "kb1"
  /\ ledger = {}
  /\ nextId = 1
  /\ tenantsEnv = TenantsConfigured

SpecScoping == InitScoping /\ [][NextScoping]_vars

(***************************************************************************)
(* Properties of the scoping of queries, checked under SpecScoping.        *)
(***************************************************************************)
\* both invocations read the File Registry, and the registries they read hold
\* the same records of the caller's tenant
SameTenantRecords ==
  /\ Resolved(1) /\ Resolved(2)
  /\ rq[1].tenant_id = rq[2].tenant_id
  /\ TenantRecords(rq[1].registry_seen, rq[1].tenant_id)
       = TenantRecords(rq[2].registry_seen, rq[2].tenant_id)

\* C37: two invocations of the same query by tenant T against registries that
\* agree on the records of T, whatever the records of other tenants, resolve the
\* same file ids, put the same filter in their service calls and return the same
\* filters object with their 200; and the fileId set of any filter holds no id
\* of a file registered under another tenant or another project.
C37_QueryScopingNonInterference ==
  /\ SameTenantRecords =>
       /\ rq[1].file_ids = rq[2].file_ids
       /\ \A i \in 1..Len(rq[1].calls), j \in 1..Len(rq[2].calls) :
            rq[1].calls[i].params.filter = rq[2].calls[j].params.filter
       /\ (rq[1].statusCode = 200 /\ rq[2].statusCode = 200)
            => rq[1].body.filters = rq[2].body.filters
       /\ (rq[1].statusCode = 404) <=> (rq[2].statusCode = 404)
  /\ \A p \in Procs : \A i \in 1..Len(rq[p].calls) :
       \A x \in rq[p].registry_seen :
         x.id \in rq[p].calls[i].params.filter.fileId
           => x.tenantId = rq[p].tenant_id /\ x.projectId = rq[p].project_id

\* both invocations returned their 200 for a project with files, the second
\* after the files of the other tenants had changed
C37_Witness ==
  /\ SameTenantRecords
  /\ rq[1].statusCode = 200 /\ rq[2].statusCode = 200
  /\ rq[1].registry_seen # rq[2].registry_seen
  /\ \E x \in rq[1].registry_seen : x.tenantId # rq[1].tenant_id /\ x.projectId = rq[1].project_id

(***************************************************************************)
(* Upload requests side by side: each invocation counts the files of the   *)
(* project and then creates its file record.                               *)
(***************************************************************************)
UploadProjects == {NoValue, "p1", "p2"}
FileNames == {NoValue, "report.pdf"}
FileSizes == {0, 1}

\* handle_file_upload: the request, its checks and the count
UStart(p) ==
  /\ up[p].pc = "idle"
  /\ \E caller \in Callers, project_id \in UploadProjects, file_name \in FileNames,
        file_size \in FileSizes, query_ok \in BOOLEAN :
       LET u0 == [IdleUp EXCEPT !.user_id = caller.user_id, !.tenant_id = caller.tenant_id,
                                !.project_id = project_id]
       IN  up' = [up EXCEPT ![p] = handle_file_upload_begin(u0, file_name, file_size,
                                     registry, tenantsEnv.Tenants, query_ok)]
  /\ UNCHANGED <<ingestVars, environ, reap, del, bucket, projects, hist, stream, registry,
                 ledger, nextId, clock, kbId, tenantsEnv, rq, served>>

\* create_file_record: table.put_item of the new record, then the presigned URL
UPut(p) ==
  /\ up[p].pc = "put"
  /\ \E put_ok \in BOOLEAN, url_ok \in BOOLEAN :
       LET file_id == new_file_id(registry)
           owner == [tenantId |-> up[p].tenant_id, projectId |-> up[p].project_id]
       IN  IF put_ok
             THEN /\ registry' = put_item(registry, FileItem(file_id, owner))
                  /\ up' = [up EXCEPT ![p] = after_create(up[p], file_id, url_ok)]
           ELSE /\ registry' = registry
                /\ up' = [up EXCEPT ![p] = UpRespond(up[p], 500, "Internal server error")]
  /\ UNCHANGED <<ingestVars, environ, reap, del, bucket, projects, hist, stream,
                 ledger, nextId, clock, kbId, tenantsEnv, rq, served>>

NextUpload == \E p \in Procs : UStart(p) \/ UPut(p)

\* the number of File Registry records of a project
FileCount(table, tenant_id, project_id) ==
  Cardinality({ x \in table : x.tenantId = tenant_id /\ x.projectId = project_id })

\* no project holds more files than its tenant's MaxFiles
WithinMaxFiles(table, tenants) ==
  \A tenant \in tenants : \A project_id \in Projects :
    FileCount(table, tenant.Id, project_id) <= tenant.MaxFiles

\* uploads arrive at a File Registry that is within the limits
InitUpload ==
  /\ InitStores
  /\ WithinMaxFiles(registry, TenantsConfigured.Tenants)
  /\ kbId = "kb1"
  /\ ledger = {}
  /\ nextId = 1
  /\ tenantsEnv = TenantsConfigured

SpecUpload == InitUpload /\ [][NextUpload]_vars

(***************************************************************************)
(* Properties of uploads, checked under SpecUpload.                        *)
(***************************************************************************)
\* C33: in every reachable state, concurrent uploads included, the File
\* Registry holds at most MaxFiles records of any project of a tenant.
C33_NeverMoreThanMaxFiles == WithinMaxFiles(registry, tenantsEnv.Tenants)

(***************************************************************************)
(* Queries side by side: the platform runs an invocation of the handler    *)
(* for each request, and their steps interleave.                           *)
(***************************************************************************)
QStep(p) ==
  \/ QAttempt(p)
  \/ QRecover(p)
  \/ QRekeyGet(p)
  \/ QRekeyPut(p)
  \/ QRekeyFail(p)
  \/ QSaveUser(p)
  \/ QSaveAi(p)

\* the caller whose queries run side by side, and what the requests carry
SharedCaller == [user_id |-> "u1", tenant_id |-> "t1"]
SharedSessions == {NoValue, "s1"}

\* handle_query up to the first call, for a request of the shared caller
QStartShared(p) ==
  /\ rq[p].pc = "idle"
  /\ \E session_id \in SharedSessions :
       LET r0 == [IdleRq EXCEPT !.user_id = SharedCaller.user_id,
                                !.tenant_id = SharedCaller.tenant_id,
                                !.query = "q1", !.before = ledger]
       IN  rq' = [rq EXCEPT ![p] = handle_query_begin(r0, "p1", session_id,
                                                      registry, kbId, TRUE)]
  /\ UNCHANGED <<ingestVars, lifecycleVars, tenantsEnv, registry, ledger, nextId, clock, kbId, served>>

NextConcurrent == \E p \in Procs : QStartShared(p) \/ QStep(p)

\* a configured deployment with every file id uploaded and an empty ledger
InitConcurrent ==
  /\ InitStores
  /\ registry = { FileItem(id, FileOwner(id)) : id \in FileIds }
  /\ kbId = "kb1"
  /\ ledger = {}
  /\ nextId = 1
  /\ tenantsEnv = TenantsConfigured

SpecConcurrent == InitConcurrent /\ [][NextConcurrent]_vars

\* invocation p recovered from the invalidated session id it was sent, and
\* its re-key ran without a failure
RecoveredFrom(p) ==
  /\ rq[p].pc = "done" /\ rq[p].statusCode = 200
  /\ rq[p].session_changed /\ ~rq[p].rekey_failed
  /\ rq[p].session_id \in Sessions

\* C31: once two queries of the same (tenant, user) sent under the same
\* session id have completed, one of them having recovered from the
\* invalidation of that id, no ledger entry of that (tenant, user) carries it
C31_NoEntryUnderInvalidatedSession ==
  \A p, q \in Procs :
    ( /\ p # q /\ RecoveredFrom(p) /\ rq[q].pc = "done"
      /\ rq[q].tenant_id = rq[p].tenant_id /\ rq[q].user_id = rq[p].user_id
      /\ rq[q].session_id = rq[p].session_id )
    => ~\E m \in ledger : /\ m.tenantId = rq[p].tenant_id /\ m.userId = rq[p].user_id
                          /\ m.sessionId = rq[p].session_id

(***************************************************************************)
(* A query and a bulk history delete side by side: the delete request may  *)
(* be served at any point of the query's invocation.                       *)
(***************************************************************************)
NextRekeyDelete == QStartShared(1) \/ QStep(1) \/ HistoryDelete

\* a configured deployment with every file id uploaded, after earlier queries
\* have filled the ledger
InitRekeyDelete ==
  /\ InitStores
  /\ registry = { FileItem(id, FileOwner(id)) : id \in FileIds }
  /\ kbId = "kb1"
  /\ ledger \in Ledgers
  /\ nextId = Cardinality(ledger) + 1
  /\ tenantsEnv = TenantsConfigured

SpecRekeyDelete == InitRekeyDelete /\ [][NextRekeyDelete]_vars

\* the bulk delete read the caller's entries and deleted every one of them
BulkDeleteRemovedAll ==
  /\ hist.op = "delete" /\ hist.statusCode = 200
  /\ hist.get_ok /\ hist.bulk = "ok"

\* C32: once a query that re-keyed and a bulk history delete of the same
\* (tenant, user) have both completed, no entry the bulk delete removed is in
\* the ledger again (under the key (tenantId, id) it had)
C32_RemovedEntriesStayRemoved ==
  ( /\ rq[1].pc = "done" /\ rq[1].session_changed
    /\ BulkDeleteRemovedAll
    /\ hist.tenant_id = rq[1].tenant_id /\ hist.user_id = rq[1].user_id )
  => \A m \in hist.before :
       (m.tenantId = hist.tenant_id /\ m.userId = hist.user_id)
         => ~\E x \in ledger : x.tenantId = m.tenantId /\ x.id = m.id

====
